---------------------------- MODULE Spec2Model ----------------------------
(***************************************************************************)
(* Model of the content-extraction engine of the AI Bias Detector          *)
(* extension (src/content.js): the ArticleExtractor cascade, its scorer,   *)
(* its exclusion filter, its text normalizer and the whole-page fallback   *)
(* listener.                                                               *)
(*                                                                         *)
(* Text is kept as a run-length encoding over three character classes:     *)
(* "w" (a non-whitespace character), "s" (a blank that is not a line       *)
(* break) and "n" (a line break).  A text is a sequence of runs            *)
(* [k |-> class, n |-> length >= 1] in which adjacent runs differ in       *)
(* class.  Class names, ids and tag names are real strings.                *)
(***************************************************************************)
EXTENDS Integers, Sequences, FiniteSets, TLC

\* ------------------------------------------------------------------ text

Run(k, n) == [k |-> k, n |-> n]

W(n) == <<Run("w", n)>>

S(n) == <<Run("s", n)>>

N(n) == <<Run("n", n)>>

IsWs(r) == r.k # "w"

\* String concatenation (a + b): the boundary runs merge when of one class.
Cat(a, b) ==
  IF a = <<>> THEN b
  ELSE IF b = <<>> THEN a
  ELSE IF a[Len(a)].k = b[1].k
       THEN SubSeq(a, 1, Len(a) - 1)
              \o <<Run(b[1].k, a[Len(a)].n + b[1].n)>>
              \o SubSeq(b, 2, Len(b))
       ELSE a \o b

RECURSIVE Length(_)
\* String.prototype.length (summed by halves)
Length(t) ==
  IF t = <<>> THEN 0
  ELSE IF Len(t) = 1 THEN t[1].n
  ELSE Length(SubSeq(t, 1, Len(t) \div 2))
         + Length(SubSeq(t, Len(t) \div 2 + 1, Len(t)))

\* The indexes of the runs of t that are not whitespace.
WordRuns(t) == {i \in 1..Len(t) : ~IsWs(t[i])}

Lowest(set) == CHOOSE i \in set : \A j \in set : i <= j

Highest(set) == CHOOSE i \in set : \A j \in set : i >= j

\* String.prototype.trim
Trim(t) ==
  IF WordRuns(t) = {} THEN <<>>
  ELSE SubSeq(t, Lowest(WordRuns(t)), Highest(WordRuns(t)))

\* Run i of t opens a whitespace block.
OpensBlock(t, i) == IsWs(t[i]) /\ (i = 1 \/ ~IsWs(t[i - 1]))

\* Index of the last run of the whitespace block that run i opens.
BlockEnd(t, i) ==
  Highest({j \in i..Len(t) : \A m \in i..j : IsWs(t[m])})

\* text.replace(/\s+/g, ' '): every maximal whitespace block becomes one blank.
ReplaceWhitespace(t) ==
  LET kept == SelectSeq([i \in 1..Len(t) |-> i],
                        LAMBDA i : ~IsWs(t[i]) \/ OpensBlock(t, i))
  IN  [m \in 1..Len(kept) |->
         IF IsWs(t[kept[m]]) THEN Run("s", 1) ELSE t[kept[m]]]

\* Number of line breaks in a whitespace block.
Breaks(b) ==
  Length(SelectSeq(b, LAMBDA r : r.k = "n"))

\* One whitespace block under /\n\s*\n\s*\n/ -> '\n\n': with three or more line
\* breaks in the block, the (greedy) match runs from its first line break to
\* its last, and the blanks before the first and after the last stay.
ReplaceBlock(b) ==
  IF Breaks(b) < 3 THEN b
  ELSE Cat(Cat(IF b[1].k = "s" THEN <<b[1]>> ELSE <<>>, N(2)),
           IF b[Len(b)].k = "s" THEN <<b[Len(b)]>> ELSE <<>>)

RECURSIVE Flatten(_)
\* The pieces joined (by halves).
Flatten(pieces) ==
  IF pieces = <<>> THEN <<>>
  ELSE IF Len(pieces) = 1 THEN pieces[1]
  ELSE Flatten(SubSeq(pieces, 1, Len(pieces) \div 2))
         \o Flatten(SubSeq(pieces, Len(pieces) \div 2 + 1, Len(pieces)))

\* text.replace(/\n\s*\n\s*\n/g, '\n\n')
ReplaceBreaks(t) ==
  LET starts == SelectSeq([i \in 1..Len(t) |-> i],
                          LAMBDA i : ~IsWs(t[i]) \/ OpensBlock(t, i))
  IN  Flatten([m \in 1..Len(starts) |->
                 IF IsWs(t[starts[m]])
                 THEN ReplaceBlock(SubSeq(t, starts[m], BlockEnd(t, starts[m])))
                 ELSE <<t[starts[m]]>>])

\* ArticleExtractor.cleanText
cleanText(text) ==
  IF text = <<>> THEN <<>>
  ELSE Trim(ReplaceBreaks(ReplaceWhitespace(text)))

\* text.split(/\s+/): the token lengths.  An empty text gives one empty token,
\* and whitespace at either end gives an empty token at that end.
Split(t) ==
  IF t = <<>> THEN <<0>>
  ELSE (IF IsWs(t[1]) THEN <<0>> ELSE <<>>)
         \o [m \in 1..Cardinality(WordRuns(t)) |->
               t[CHOOSE i \in WordRuns(t) :
                   Cardinality({j \in WordRuns(t) : j <= i}) = m].n]
         \o (IF IsWs(t[Len(t)]) THEN <<0>> ELSE <<>>)

\* ArticleExtractor.countWords
countWords(text) ==
  IF text = <<>> THEN 0
  ELSE Len(SelectSeq(Split(Trim(text)), LAMBDA n : n > 0))

\* text.substring(0, n)
Substring(t, n) ==
  IF Length(t) <= n THEN t
  ELSE IF n <= 0 THEN <<>>
  ELSE LET i == Lowest({j \in 1..Len(t) : Length(SubSeq(t, 1, j)) >= n})
       IN  SubSeq(t, 1, i - 1) \o <<Run(t[i].k, n - Length(SubSeq(t, 1, i - 1)))>>

\* ------------------------------------------------------------- strings

Upper == <<"A", "B", "C", "D", "E", "F", "G", "H", "I", "J", "K", "L", "M",
           "N", "O", "P", "Q", "R", "S", "T", "U", "V", "W", "X", "Y", "Z">>

Lower == <<"a", "b", "c", "d", "e", "f", "g", "h", "i", "j", "k", "l", "m",
           "n", "o", "p", "q", "r", "s", "t", "u", "v", "w", "x", "y", "z">>

LowerChar(c) ==
  IF \E i \in 1..Len(Upper) : Upper[i] = c
  THEN Lower[CHOOSE i \in 1..Len(Upper) : Upper[i] = c]
  ELSE c

RECURSIVE toLowerCase(_)
\* String.prototype.toLowerCase (by halves)
toLowerCase(str) ==
  IF Len(str) = 0 THEN ""
  ELSE IF Len(str) = 1 THEN LowerChar(str)
  ELSE toLowerCase(SubSeq(str, 1, Len(str) \div 2))
         \o toLowerCase(SubSeq(str, Len(str) \div 2 + 1, Len(str)))

\* String.prototype.includes
includes(str, kw) ==
  \E i \in 1..(Len(str) - Len(kw) + 1) : SubSeq(str, i, i + Len(kw) - 1) = kw

\* Whether the class attribute cls holds the class name c as one of its
\* blank-separated tokens (what the selector .c asks of an element).
HasClass(cls, c) ==
  \E i \in 1..(Len(cls) - Len(c) + 1) :
     /\ SubSeq(cls, i, i + Len(c) - 1) = c
     /\ (i = 1 \/ SubSeq(cls, i - 1, i - 1) = " ")
     /\ (i + Len(c) - 1 = Len(cls) \/ SubSeq(cls, i + Len(c), i + Len(c)) = " ")

\* ----------------------------------------------------------- document tree
(***************************************************************************)
(* A tree of element nodes is a sequence in document order (pre-order).    *)
(* Node j has its parent's index in .parent (0: the root of the sequence   *)
(* hangs under the body, or is detached), its own direct text in .text     *)
(* (held before its children), its tagName, its class and id attributes,   *)
(* its layout box .geo and its dataset.extractionMethod in .method ("":    *)
(* not set).                                                               *)
(***************************************************************************)

Box(left, width) == [ok |-> TRUE, left |-> left, width |-> width]

\* An element whose getBoundingClientRect throws.
NoBox == [ok |-> FALSE, left |-> 0, width |-> 0]

Element(tag, cls, id, parent, text, geo) ==
  [tag |-> tag, cls |-> cls, id |-> id, parent |-> parent, text |-> text,
   geo |-> geo, method |-> ""]

\* document.body, the parent of the top-level nodes.
Body == Element("BODY", "", "", 0, <<>>, Box(0, 1000))

RECURSIVE IsInside(_, _, _)
\* Node j is a proper descendant of node i (i = 0: of the document).
IsInside(ns, j, i) ==
  IF i = 0 THEN TRUE
  ELSE IF ns[j].parent = 0 THEN FALSE
  ELSE IF ns[j].parent = i THEN TRUE
  ELSE IsInside(ns, ns[j].parent, i)

\* The descendants of node i in document order.
Descendants(ns, i) ==
  SelectSeq([j \in 1..Len(ns) |-> j], LAMBDA j : IsInside(ns, j, i))

RECURSIVE ConcatText(_, _)
ConcatText(ns, js) ==
  IF js = <<>> THEN <<>>
  ELSE Cat(ns[js[1]].text, ConcatText(ns, Tail(js)))

\* Node.textContent of node i (i = 0: of the body)
textContent(ns, i) ==
  ConcatText(ns, IF i = 0 THEN Descendants(ns, 0) ELSE <<i>> \o Descendants(ns, i))

\* A simple selector against an element: .name asks for a class token, a bare
\* name for the tag (tag names of HTML elements match without regard to case).
Matches(node, sel) ==
  IF SubSeq(sel, 1, 1) = "."
  THEN HasClass(node.cls, SubSeq(sel, 2, Len(sel)))
  ELSE toLowerCase(node.tag) = sel

\* root.querySelectorAll(sels), sels a set of simple selectors (a selector
\* list): the matching descendants of root in document order.
querySelectorAll(ns, root, sels) ==
  SelectSeq(Descendants(ns, root), LAMBDA j : \E sel \in sels : Matches(ns[j], sel))

\* root.querySelector(sels): the first match, 0 for null.
querySelector(ns, root, sels) ==
  LET all == querySelectorAll(ns, root, sels)
  IN  IF all = <<>> THEN 0 ELSE all[1]

\* node.parentElement
parentElement(ns, j) == IF ns[j].parent = 0 THEN Body ELSE ns[ns[j].parent]

\* The subtree of node i as a tree of its own (what cloneNode(true) copies).
Subtree(ns, i) ==
  LET keep == <<i>> \o Descendants(ns, i)
      NewIndex(j) == CHOOSE k \in 1..Len(keep) : keep[k] = j
  IN  [k \in 1..Len(keep) |->
         [ns[keep[k]] EXCEPT !.parent =
            IF keep[k] = i THEN 0 ELSE NewIndex(ns[keep[k]].parent)]]

\* Appends the tree sub under node 1 of the tree ns (Node.appendChild).
appendChild(ns, sub) ==
  ns \o [k \in 1..Len(sub) |->
           [sub[k] EXCEPT !.parent = IF sub[k].parent = 0 THEN 1
                                     ELSE sub[k].parent + Len(ns)]]

\* The tree ns without the nodes in gone and their subtrees (Element.remove).
Remove(ns, gone) ==
  LET Dead(j) == j \in gone \/ \E g \in gone : IsInside(ns, j, g)
      keep == SelectSeq([j \in 1..Len(ns) |-> j], LAMBDA j : ~Dead(j))
      NewIndex(j) == CHOOSE k \in 1..Len(keep) : keep[k] = j
  IN  [k \in 1..Len(keep) |->
         [ns[keep[k]] EXCEPT !.parent =
            IF ns[keep[k]].parent = 0 THEN 0 ELSE NewIndex(ns[keep[k]].parent)]]

Range(seq) == {seq[k] : k \in 1..Len(seq)}

\* ------------------------------------------------------- ArticleExtractor

\* this.selectors.content
contentSelectors ==
  <<".content", ".article-content", ".post-content", ".entry-content",
    ".article-body", ".post-body", ".story-body", ".article-text",
    ".content-body", ".main-content">>

\* this.selectors.exclude
excludeSelectors ==
  <<"nav", "header", "footer", "aside", ".sidebar", ".navigation", ".menu",
    ".ads", ".advertisement", ".comments", ".social", ".share", ".related",
    ".recommended", ".popup", ".modal", "script", "style", "noscript">>

\* window.innerWidth
innerWidth == 1000

excludeTags == <<"nav", "header", "footer", "aside", "script", "style">>

excludeKeywords ==
  <<"nav", "menu", "sidebar", "ads", "advertisement", "comments", "social",
    "share", "popup", "modal">>

\* element.className.toLowerCase() throws a TypeError for an SVG element,
\* whose className is an SVGAnimatedString and not a string.
classNameThrows(element) == element.tag \in {"svg", "foreignObject"}

RECURSIVE KeywordLoop_ClassOnly(_, _, _)
\* The keyword loop looking at the class name alone.
KeywordLoop_ClassOnly(className, id, kws) ==
  IF kws = <<>> THEN FALSE
  ELSE IF includes(className, kws[1]) THEN TRUE
  ELSE KeywordLoop_ClassOnly(className, id, Tail(kws))

RECURSIVE KeywordLoop(_, _, _)
\* for (const keyword of excludeKeywords): the first hit returns true.
KeywordLoop(className, id, kws) ==
  IF kws = <<>> THEN FALSE
  ELSE IF includes(className, kws[1]) \/ includes(id, kws[1]) THEN TRUE
  ELSE KeywordLoop(className, id, Tail(kws))

\* ArticleExtractor.shouldExcludeElement, of an element
shouldExcludeElement(element) ==
  LET tagName == toLowerCase(element.tag)
      className == toLowerCase(element.cls)
      id == toLowerCase(element.id)
  IN  IF tagName \in Range(excludeTags) THEN TRUE
      ELSE KeywordLoop(className, id, excludeKeywords)

\* isValidContent taking 200 characters for enough.
isValidContent_AtLeast200(ns, i) ==
  IF i = 0 THEN FALSE
  ELSE /\ Length(Trim(textContent(ns, i))) >= 200
       /\ Len(querySelectorAll(ns, i, {"p"})) >= 2

\* isValidContent asking for more than 2 paragraphs.
isValidContent_ThreeParagraphs(ns, i) ==
  IF i = 0 THEN FALSE
  ELSE /\ Length(Trim(textContent(ns, i))) > 200
       /\ Len(querySelectorAll(ns, i, {"p"})) > 2

\* isValidContent asking for the 100 characters of the final length check.
isValidContent_Over100(ns, i) ==
  IF i = 0 THEN FALSE
  ELSE /\ Length(Trim(textContent(ns, i))) > 100
       /\ Len(querySelectorAll(ns, i, {"p"})) >= 2

\* ArticleExtractor.isValidContent, of node i of ns (0: null)
isValidContent(ns, i) ==
  IF i = 0 THEN FALSE
  ELSE /\ Length(Trim(textContent(ns, i))) > 200
       /\ Len(querySelectorAll(ns, i, {"p"})) >= 2

Min(a, b) == IF a < b THEN a ELSE b

Abs(a) == IF a < 0 THEN -a ELSE a

\* The centering test against 0.3 of half the viewport width.
centerBonus_HalfWidth(geo) ==
  IF ~geo.ok THEN 0
  ELSE IF 20 * Abs(2 * geo.left + geo.width - innerWidth) < 6 * innerWidth
       THEN 500 ELSE 0

\* The centering test of calculateContentScore.  elementCenter is
\* left + width / 2 and viewportCenter is innerWidth / 2; both sides of
\* centerDistance < innerWidth * 0.3 are taken times 20 to stay in integers.
\* A box that cannot be queried throws, and the catch adds nothing.
centerBonus(geo) ==
  IF ~geo.ok THEN 0
  ELSE IF 10 * Abs(2 * geo.left + geo.width - innerWidth) < 6 * innerWidth
       THEN 500 ELSE 0

\* calculateContentScore losing the whole score when the box cannot be queried.
calculateContentScore_BoxRequired(ns, i) ==
  LET paragraphs == querySelectorAll(ns, i, {"p"})
      textLength == Length(Trim(textContent(ns, i)))
      className == toLowerCase(ns[i].cls)
      id == toLowerCase(ns[i].id)
      s1 == Len(paragraphs) * 200
      s2 == s1 + Min(textLength, 2000)
      s3 == IF \/ includes(className, "content") \/ includes(className, "article")
               \/ includes(className, "post") \/ includes(className, "story")
            THEN s2 + 1000 ELSE s2
      s4 == IF \/ includes(id, "content") \/ includes(id, "article")
               \/ includes(id, "post") \/ includes(id, "story")
            THEN s3 + 1000 ELSE s3
      s5 == IF \/ includes(className, "nav") \/ includes(className, "sidebar")
               \/ includes(className, "menu") \/ includes(className, "footer")
            THEN s4 - 2000 ELSE s4
  IN  IF ns[i].geo.ok THEN s5 + centerBonus(ns[i].geo) ELSE 0

\* calculateContentScore taking 20 off for each navigation word in the class.
calculateContentScore_PenaltyPerWord(ns, i) ==
  LET paragraphs == querySelectorAll(ns, i, {"p"})
      textLength == Length(Trim(textContent(ns, i)))
      className == toLowerCase(ns[i].cls)
      id == toLowerCase(ns[i].id)
      s1 == Len(paragraphs) * 200
      s2 == s1 + Min(textLength, 2000)
      s3 == IF \/ includes(className, "content") \/ includes(className, "article")
               \/ includes(className, "post") \/ includes(className, "story")
            THEN s2 + 1000 ELSE s2
      s4 == IF \/ includes(id, "content") \/ includes(id, "article")
               \/ includes(id, "post") \/ includes(id, "story")
            THEN s3 + 1000 ELSE s3
      s5 == s4 - 2000 * Cardinality({kw \in {"nav", "sidebar", "menu", "footer"} :
                                       includes(className, kw)})
  IN  s5 + centerBonus(ns[i].geo)

\* ArticleExtractor.calculateContentScore of node i of ns, in hundredths (the
\* code's textLength / 100 is a fraction): 2 per paragraph, min(length/100, 20),
\* 10 for a content word in the class, 10 for one in the id, -20 for a
\* navigation word in the class, 5 for a centered box.
calculateContentScore(ns, i) ==
  LET paragraphs == querySelectorAll(ns, i, {"p"})
      textLength == Length(Trim(textContent(ns, i)))
      className == toLowerCase(ns[i].cls)
      id == toLowerCase(ns[i].id)
      s1 == Len(paragraphs) * 200
      s2 == s1 + Min(textLength, 2000)
      s3 == IF \/ includes(className, "content") \/ includes(className, "article")
               \/ includes(className, "post") \/ includes(className, "story")
            THEN s2 + 1000 ELSE s2
      s4 == IF \/ includes(id, "content") \/ includes(id, "article")
               \/ includes(id, "post") \/ includes(id, "story")
            THEN s3 + 1000 ELSE s3
      s5 == IF \/ includes(className, "nav") \/ includes(className, "sidebar")
               \/ includes(className, "menu") \/ includes(className, "footer")
            THEN s4 - 2000 ELSE s4
  IN  s5 + centerBonus(ns[i].geo)

\* An element reference: a node of the live document (ref > 0), a detached
\* tree (ref = 0, tree its nodes), or null.
Null == [ref |-> 0, tree |-> <<>>]

Live(i) == [ref |-> i, tree |-> <<>>]

Detached(tree) == [ref |-> 0, tree |-> tree]

\* What a strategy returns: the element and the document, which the strategy
\* has tagged (element.dataset.extractionMethod = ...) when it found one.
Found(ns, i, tag) ==
  [element |-> Live(i), doc |-> [ns EXCEPT ![i].method = tag], thrown |-> FALSE]

NotFound(ns) == [element |-> Null, doc |-> ns, thrown |-> FALSE]

\* A strategy that threw instead of returning.
Thrown(ns) == [element |-> Null, doc |-> ns, thrown |-> TRUE]

\* findSemanticContent, first half: the first <article>
findArticle(ns) ==
  LET article == querySelector(ns, 0, {"article"})
  IN  IF article # 0 /\ isValidContent(ns, article)
      THEN Found(ns, article, "semantic-article")
      ELSE NotFound(ns)

\* findMain tagging the node as the <article> branch does.
findMain_ArticleTag(ns) ==
  LET main == querySelector(ns, 0, {"main"})
  IN  IF main # 0 /\ isValidContent(ns, main)
      THEN Found(ns, main, "semantic-article")
      ELSE NotFound(ns)

\* findSemanticContent, second half: the first <main>
findMain(ns) ==
  LET main == querySelector(ns, 0, {"main"})
  IN  IF main # 0 /\ isValidContent(ns, main)
      THEN Found(ns, main, "semantic-main")
      ELSE NotFound(ns)

\* The class loop as one query with the selectors merged into a list.
ClassLoop_Merged(ns, sels) ==
  LET element == querySelector(ns, 0, Range(sels))
  IN  IF element # 0 /\ isValidContent(ns, element)
      THEN Found(ns, element, "class-based")
      ELSE NotFound(ns)

RECURSIVE ClassLoop(_, _)
\* for (const selector of this.selectors.content)
ClassLoop(ns, sels) ==
  IF sels = <<>> THEN NotFound(ns)
  ELSE LET element == querySelector(ns, 0, {sels[1]})
       IN  IF element # 0 /\ isValidContent(ns, element)
           THEN Found(ns, element, "class-based")
           ELSE ClassLoop(ns, Tail(sels))

\* ArticleExtractor.findContentByClass
findContentByClass(ns) == ClassLoop(ns, contentSelectors)

RECURSIVE Insert_LastWins(_, _)
\* A sort that puts a candidate before those of equal score.
Insert_LastWins(sorted, c) ==
  IF sorted = <<>> THEN <<c>>
  ELSE IF sorted[1].score > c.score
       THEN <<sorted[1]>> \o Insert_LastWins(Tail(sorted), c)
  ELSE <<c>> \o sorted

RECURSIVE Insert(_, _)
\* The place of candidate c in the list sorted by falling score: behind every
\* candidate that scores at least as much (the sort is stable).
Insert(sorted, c) ==
  IF sorted = <<>> THEN <<c>>
  ELSE IF sorted[1].score >= c.score THEN <<sorted[1]>> \o Insert(Tail(sorted), c)
  ELSE <<c>> \o sorted

RECURSIVE SortByScore(_)
\* candidates.sort((a, b) => b.score - a.score)
SortByScore(cs) ==
  IF cs = <<>> THEN <<>>
  ELSE Insert(SortByScore(SubSeq(cs, 1, Len(cs) - 1)), cs[Len(cs)])

\* containers.forEach of findContentByHeuristics: the candidates, in
\* document order.
heuristicCandidates(ns) ==
  LET containers == querySelectorAll(ns, 0, {"div", "section", "article", "main"})
      kept == SelectSeq(containers, LAMBDA c : ~shouldExcludeElement(ns[c]))
      scored == [k \in 1..Len(kept) |->
                   [element |-> kept[k], score |-> calculateContentScore(ns, kept[k])]]
  IN  SelectSeq(scored, LAMBDA c : c.score > 0)

\* ArticleExtractor.findContentByHeuristics
findContentByHeuristics(ns) ==
  LET candidates == SortByScore(heuristicCandidates(ns))
  IN  IF Len(candidates) > 0 /\ candidates[1].score > 1000
      THEN Found(ns, candidates[1].element, "heuristic")
      ELSE NotFound(ns)

RECURSIVE ParagraphLoop_NoBlank(_, _, _)
\* The paragraph loop adding the texts to totalText with nothing in between.
ParagraphLoop_NoBlank(ns, ps, acc) ==
  IF ps = <<>> THEN acc
  ELSE LET text == Trim(textContent(ns, ps[1]))
       IN  IF Length(text) > 50 /\ classNameThrows(parentElement(ns, ps[1]))
           THEN [acc EXCEPT !.thrown = TRUE]
           ELSE IF Length(text) > 50 /\ ~shouldExcludeElement(parentElement(ns, ps[1]))
           THEN ParagraphLoop_NoBlank(ns, Tail(ps),
                  [container |-> appendChild(acc.container, Subtree(ns, ps[1])),
                   totalText |-> Cat(acc.totalText, text),
                   thrown |-> FALSE])
           ELSE ParagraphLoop_NoBlank(ns, Tail(ps), acc)

RECURSIVE ParagraphLoop(_, _, _)
\* paragraphs.forEach of findContentFromParagraphs: acc holds the container
\* and totalText so far, and whether shouldExcludeElement threw.
ParagraphLoop(ns, ps, acc) ==
  IF ps = <<>> THEN acc
  ELSE LET text == Trim(textContent(ns, ps[1]))
       IN  IF Length(text) > 50 /\ classNameThrows(parentElement(ns, ps[1]))
           THEN [acc EXCEPT !.thrown = TRUE]
           ELSE IF Length(text) > 50 /\ ~shouldExcludeElement(parentElement(ns, ps[1]))
           THEN ParagraphLoop(ns, Tail(ps),
                  [container |-> appendChild(acc.container, Subtree(ns, ps[1])),
                   totalText |-> Cat(acc.totalText, Cat(text, S(1))),
                   thrown |-> FALSE])
           ELSE ParagraphLoop(ns, Tail(ps), acc)

\* findContentFromParagraphs giving up below 4 paragraphs.
findContentFromParagraphs_FourParagraphs(ns) ==
  LET paragraphs == querySelectorAll(ns, 0, {"p"})
      acc == ParagraphLoop(ns, paragraphs,
               [container |-> <<Element("DIV", "", "", 0, <<>>, Box(0, 0))>>,
                totalText |-> <<>>, thrown |-> FALSE])
  IN  IF Len(paragraphs) < 4 THEN NotFound(ns)
      ELSE IF acc.thrown THEN Thrown(ns)
      ELSE IF Length(acc.totalText) > 200
      THEN [element |-> Detached([acc.container EXCEPT ![1].method = "paragraphs"]),
            doc |-> ns, thrown |-> FALSE]
      ELSE NotFound(ns)

\* ArticleExtractor.findContentFromParagraphs
findContentFromParagraphs(ns) ==
  LET paragraphs == querySelectorAll(ns, 0, {"p"})
      acc == ParagraphLoop(ns, paragraphs,
               [container |-> <<Element("DIV", "", "", 0, <<>>, Box(0, 0))>>,
                totalText |-> <<>>, thrown |-> FALSE])
  IN  IF Len(paragraphs) < 3 THEN NotFound(ns)
      ELSE IF acc.thrown THEN Thrown(ns)
      ELSE IF Length(acc.totalText) > 200
      THEN [element |-> Detached([acc.container EXCEPT ![1].method = "paragraphs"]),
            doc |-> ns, thrown |-> FALSE]
      ELSE NotFound(ns)

\* The removal taking also the nodes that shouldExcludeElement marks.
RemoveExcluded_WithFilter(tree, sels) ==
  Remove(tree, {j \in 2..Len(tree) :
                  \/ \E sel \in Range(sels) : Matches(tree[j], sel)
                  \/ shouldExcludeElement(tree[j])})

RECURSIVE RemoveExcluded(_, _)
\* this.selectors.exclude.forEach: each selector's matches under the root of
\* the tree are removed in turn.
RemoveExcluded(tree, sels) ==
  IF sels = <<>> THEN tree
  ELSE RemoveExcluded(Remove(tree, Range(querySelectorAll(tree, 1, {sels[1]}))),
                      Tail(sels))

RECURSIVE CollectText(_, _)
\* paragraphs.forEach of extractTextFromElement
CollectText(tree, ps) ==
  IF ps = <<>> THEN <<>>
  ELSE LET pText == Trim(textContent(tree, ps[1]))
       IN  Cat(IF Length(pText) > 0 THEN Cat(pText, N(2)) ELSE <<>>,
               CollectText(tree, Tail(ps)))

\* element.cloneNode(true): a copy of the element's tree
cloneNode(tree) == tree

\* extractTextFromElement removing the excluded nodes from the element itself.
extractTextFromElement_InPlace(tree) ==
  LET clone == RemoveExcluded(tree, excludeSelectors)
      paragraphs == querySelectorAll(clone, 1,
                      {"p", "h1", "h2", "h3", "h4", "h5", "h6"})
      text == CollectText(clone, paragraphs)
  IN  [text |-> IF Length(Trim(text)) = 0 THEN textContent(clone, 1) ELSE text,
       element |-> clone]

\* ArticleExtractor.extractTextFromElement, of the element's tree: the text,
\* and the element's tree as the call leaves it (only the clone is changed).
extractTextFromElement(tree) ==
  LET clone == RemoveExcluded(cloneNode(tree), excludeSelectors)
      paragraphs == querySelectorAll(clone, 1,
                      {"p", "h1", "h2", "h3", "h4", "h5", "h6"})
      text == CollectText(clone, paragraphs)
  IN  [text |-> IF Length(Trim(text)) = 0 THEN textContent(clone, 1) ELSE text,
       element |-> tree]

\* ------------------------------------------------------------------ pages

\* c words of l characters each, one blank between them.
Words(c, l) == [i \in 1..(2 * c - 1) |-> IF i % 2 = 1 THEN Run("w", l) ELSE Run("s", 1)]

\* A text as the markup holds it: on a line of its own, indented.
Indented(t) == Cat(Cat(N(1), S(2)), Cat(t, N(1)))

Title == W(5)

\* A sentence of 60 characters in 10 words.
Sentence60 == Cat(Words(9, 5), Cat(S(1), W(6)))

ShortText == Words(2, 2)

\* 66 characters in 5 words.
Text66 == Cat(W(10), Cat(S(1), Words(4, 13)))

\* 120 characters in 5 words.
Text120 == Cat(W(24), Cat(S(1), Words(4, 23)))

\* 250 characters in 5 words.
Text250 == Cat(W(50), Cat(S(1), Words(4, 49)))

\* 100 characters in 6 words.
Text100 == Cat(W(5), Cat(S(1), Words(5, 18)))

\* 5010 characters in 3 words, the last one behind the 5000th character.
LongText == Cat(Words(2, 2499), Cat(S(1), W(10)))

\* 303 characters of which two are not whitespace.
SparseText == Cat(W(1), Cat(S(150), Cat(N(1), Cat(S(150), W(1)))))

\* 500 characters of menu text in 10 entries.
MenuText == Cat(Words(10, 49), W(1))

\* The most paragraphs a block of a page holds.
MaxParas == 3

\* The most extraction requests a page receives.
MaxRuns == 2

\* The containers of the pages: tag, class, id.  The <foreignObject> is an
\* SVG element (the <svg> around it holds nothing else and is left out).  The
\* last has no container (its paragraphs are children of the body).
Kinds ==
  << <<"ARTICLE", "", "">>,
     <<"MAIN", "", "">>,
     <<"DIV", "", "">>,
     <<"DIV", "content", "">>,
     <<"DIV", "entry article-body", "">>,
     <<"DIV", "NavBar", "">>,
     <<"NAV", "", "">>,
     <<"DIV", "related", "">>,
     <<"SECTION", "site-footer", "Story">>,
     <<"DIV", "", "comments">>,
     <<"foreignObject", "", "">>,
     <<"", "", "">> >>

Bare == Len(Kinds)

Block(kind, own, title, k) == [kind |-> kind, own |-> own, title |-> title, k |-> k]

\* The nodes of a block whose container hangs under node parent and lands at
\* index at: the container, its heading, its k paragraphs.
BlockNodes(b, ptext, geo, parent, at) ==
  LET inner == IF b.kind = Bare THEN parent ELSE at
      head == IF b.kind = Bare THEN <<>>
              ELSE <<Element(Kinds[b.kind][1], Kinds[b.kind][2], Kinds[b.kind][3],
                             parent, b.own, geo)>>
      h1 == IF b.title THEN <<Element("H1", "", "", inner, Title, geo)>> ELSE <<>>
  IN  head \o h1 \o [j \in 1..b.k |-> Element("P", "", "", inner, ptext, geo)]

FirstBlocks ==
  {Block(kind, <<>>, FALSE, k) : kind \in 1..Len(Kinds), k \in 0..MaxParas}
    \cup {Block(kind, Text250, FALSE, k) : kind \in {1, 3}, k \in {0, 2}}
    \cup {Block(1, SparseText, FALSE, 2), Block(1, <<>>, TRUE, 2),
          Block(7, MenuText, FALSE, 0)}
    \cup {Block(3, Text100, FALSE, 0), Block(3, Cat(Text100, W(1)), FALSE, 0),
          Block(3, LongText, FALSE, 0)}

SecondBlocks ==
  {Block(kind, <<>>, FALSE, k) : kind \in {1, 5, 6, 8}, k \in {2, MaxParas}}
    \cup {Block(4, <<>>, FALSE, 2)}

\* 62 characters of which two are not whitespace.
SparseParagraph == Cat(W(1), Cat(S(60), W(1)))

ParagraphTexts ==
  {ShortText, Sentence60, Indented(Text66), Text120, SparseParagraph}

\* Layout boxes: centered, 200 off the center, 350 off the center, none.
Boxes == {Box(100, 800), Box(0, 600), Box(0, 300), NoBox}

Page(first, second, nested, ptext, geo) ==
  LET a == BlockNodes(first, ptext, geo, 0, 1)
  IN  a \o (IF second.k = 0 THEN <<>>
            ELSE BlockNodes(second, ptext, geo,
                            IF nested /\ first.kind # Bare THEN 1 ELSE 0,
                            Len(a) + 1))

Pages ==
  {Page(first, Block(1, <<>>, FALSE, 0), FALSE, ptext, geo) :
     first \in FirstBlocks, ptext \in ParagraphTexts, geo \in Boxes}
  \cup
  {Page(first, second, nested, ptext, geo) :
     first \in FirstBlocks, second \in SecondBlocks, nested \in BOOLEAN,
     ptext \in {Indented(Text66), Text120}, geo \in {Box(100, 800), Box(0, 600)}}
  \cup
  {Page(Block(4, <<>>, FALSE, 2), second, FALSE, Indented(Text66), NoBox) :
     second \in SecondBlocks}

\* ---------------------------------------------------------- state machine

VARIABLES
  doc,             \* the live document: the element nodes under the body
  listener,        \* which onMessage listener the content script registered
  pc,              \* where the handling of the extractText request stands
  contentElement,  \* extractArticleText's contentElement
  tried,           \* the strategies run in this call, each with its outcome
  result,          \* the ExtractionResult handed to sendResponse
  prev,            \* the ExtractionResult of the request before
  runs,            \* extractText requests handled so far
  readyState,      \* document.readyState
  sent,            \* calls of sendResponse for extractText requests so far
  probe,           \* the arguments of a function applied on its own
  outcome,         \* what the function returned, call by call
  cache,           \* BiasDetectionService.cache: its entries in insertion order
  now,             \* Date.now(), in units of 8 hours
  pending,         \* the analyzeText calls that wait for the backend
  requests,        \* backend requests made so far
  call,            \* the latest analyzeText call: its number and text
  answer,          \* what the latest analyzeText call to return has returned
  jobs,            \* the extractAndAnalyze calls made, each with where it stands
  channels,        \* the calls whose extractText message has not been answered
  evicted,         \* the entry that saveToCache deleted last
  currentState,    \* PopupController.currentState
  analysisResult,  \* PopupController.analysisResult
  shown,           \* what the results and error elements of the popup hold
  inflight,        \* the extractAndAnalyze messages not answered yet
  cancelled,       \* the analyses the user has cancelled
  scans            \* analyses started so far

extractorVars ==
  <<doc, listener, pc, contentElement, tried, result, prev, runs, readyState, sent,
    probe, outcome>>

serviceVars ==
  <<cache, now, pending, requests, call, answer, jobs, channels, evicted>>

popupVars == <<currentState, analysisResult, shown, inflight, cancelled, scans>>

vars == <<extractorVars, serviceVars, popupVars>>

NoResult ==
  [success |-> FALSE, text |-> <<>>, wordCount |-> 0, extractionMethod |-> "",
   error |-> ""]

NoContentFound ==
  "No article content found on this page. This might not be an article page."

ContentTooShort ==
  "Article content too short for analysis (minimum 100 characters required)"

Failure(error, text, wordCount) ==
  [success |-> FALSE, text |-> text, wordCount |-> wordCount,
   extractionMethod |-> "", error |-> error]

Success(text, wordCount, method) ==
  [success |-> TRUE, text |-> text, wordCount |-> wordCount,
   extractionMethod |-> method, error |-> ""]

NoProbe == [kind |-> "none", a |-> <<>>, b |-> <<>>]

\* The tree of the element contentElement refers to.
TreeOf(ns, element) ==
  IF element.ref > 0 THEN Subtree(ns, element.ref) ELSE element.tree

\* The document with the subtree of node i replaced by tree.
Graft(ns, i, tree) ==
  LET old == Subtree(ns, i)
      last == i + Len(old) - 1
      Shift(q) == IF q > last THEN q - Len(old) + Len(tree) ELSE q
  IN  SubSeq(ns, 1, i - 1)
        \o [k \in 1..Len(tree) |->
              [tree[k] EXCEPT !.parent = IF k = 1 THEN ns[i].parent
                                         ELSE tree[k].parent + i - 1]]
        \o [k \in 1..(Len(ns) - last) |->
              [ns[last + k] EXCEPT !.parent = Shift(ns[last + k].parent)]]

\* analysisResult = null
NoAnalysis == [success |-> FALSE, of |-> 0]

\* Nothing written to the results or the error elements.
NothingShown == [kind |-> "none", of |-> 0]

\* new PopupController()
PopupIdle ==
  /\ currentState = "initial"
  /\ analysisResult = NoAnalysis
  /\ shown = NothingShown
  /\ inflight = {}
  /\ cancelled = {}
  /\ scans = 0

\* No cache entry.
NoEntry ==
  [key |-> 0, timestamp |-> 0,
   result |-> [success |-> FALSE, overallScore |-> "", apiUsed |-> "", of |-> ""]]

\* new BiasDetectionService(), no analysis asked for yet.
NoAnswer ==
  [n |-> 0, text |-> "", result |-> [success |-> FALSE, overallScore |-> "",
                                      apiUsed |-> "", of |-> ""],
   cached |-> FALSE, age |-> 0]

ServiceIdle ==
  /\ cache = <<>>
  /\ now = 0
  /\ pending = {}
  /\ requests = 0
  /\ call = [n |-> 0, text |-> ""]
  /\ answer = NoAnswer
  /\ jobs = <<>>
  /\ channels = {}
  /\ evicted = NoEntry

\* The content script is loaded into a page; the ArticleExtractor initialized
\* (its listener is registered) or failed to (the fallback listener is).
Init ==
  /\ doc \in Pages
  /\ listener \in {"primary", "fallback"}
  /\ pc = "idle"
  /\ contentElement = Null
  /\ tried = <<>>
  /\ result = NoResult
  /\ prev = NoResult
  /\ runs = 0
  /\ readyState = "complete"
  /\ sent = 0
  /\ probe = NoProbe
  /\ outcome = <<>>
  /\ ServiceIdle
  /\ PopupIdle

\* The primary listener, registered once the document is no longer loading,
\* receives extractText: handleExtractTextRequest awaits waitForPageLoad().
ExtractText ==
  /\ listener = "primary"
  /\ readyState # "loading"
  /\ pc \in {"idle", "done"}
  /\ runs < MaxRuns
  /\ runs' = runs + 1
  /\ prev' = result
  /\ result' = NoResult
  /\ contentElement' = Null
  /\ tried' = <<>>
  /\ pc' = "waiting"
  /\ UNCHANGED <<doc, listener, readyState, sent, probe, outcome>>
  /\ UNCHANGED <<serviceVars, popupVars>>

\* waitForPageLoad going on without looking at the document.
WaitForPageLoad_NoCheck ==
  /\ pc = "waiting"
  /\ pc' = "semantic-article"
  /\ UNCHANGED <<doc, listener, contentElement, tried, result, prev, runs,
                 readyState, sent, probe, outcome>>
  /\ UNCHANGED <<serviceVars, popupVars>>

\* waitForPageLoad resolves: document.readyState is 'complete', at the call or
\* at one of the checks made every 100 ms; extractArticleText starts.  A check
\* that finds another readyState changes nothing and sets the timer again.
WaitForPageLoad ==
  /\ pc = "waiting"
  /\ readyState = "complete"
  /\ pc' = "semantic-article"
  /\ UNCHANGED <<doc, listener, contentElement, tried, result, prev, runs,
                 readyState, sent, probe, outcome>>
  /\ UNCHANGED <<serviceVars, popupVars>>

\* An entry of the history of strategies run.
Ran(strategy, found) == [strategy |-> strategy, found |-> found, threw |-> FALSE]

TypeErrorMessage == "element.className.toLowerCase is not a function"

\* A catch that answers as if no candidate had been found.
Caught_NoContent(message) == Failure(NoContentFound, <<>>, 0)

\* extractArticleText's catch (error): what it returns.
Caught(message) ==
  Failure("Failed to extract article text: " \o message, <<>>, 0)

\* One strategy of the cascade: contentElement = strategy(), and the next
\* strategy only if (!contentElement).  A strategy that throws ends the try
\* block: the catch builds the result, which is sent.
Strategy(here, found, next) ==
  /\ pc = here
  /\ contentElement = Null
  /\ contentElement' = found.element
  /\ doc' = found.doc
  /\ tried' = Append(tried, [strategy |-> here, found |-> found.element # Null,
                             threw |-> found.thrown])
  /\ pc' = IF found.thrown THEN "done"
           ELSE IF found.element # Null THEN "extract" ELSE next
  /\ result' = IF found.thrown THEN Caught(TypeErrorMessage) ELSE result
  /\ sent' = IF found.thrown THEN sent + 1 ELSE sent
  /\ UNCHANGED <<listener, prev, runs, readyState, probe, outcome>>
  /\ UNCHANGED <<serviceVars, popupVars>>

SemanticArticle == Strategy("semantic-article", findArticle(doc), "semantic-main")

SemanticMain == Strategy("semantic-main", findMain(doc), "class-based")

ClassBased == Strategy("class-based", findContentByClass(doc), "heuristic")

Heuristic == Strategy("heuristic", findContentByHeuristics(doc), "paragraphs")

Paragraphs == Strategy("paragraphs", findContentFromParagraphs(doc), "extract")

\* element.dataset.extractionMethod || 'unknown'
extractionMethod(ns, element) ==
  LET method == IF element.ref > 0 THEN ns[element.ref].method
                ELSE element.tree[1].method
  IN  IF method = "" THEN "unknown" ELSE method

\* extractArticleText without the minimum length check.
extractArticleText_NoMinimum(ns, element) ==
  IF element = Null
  THEN Failure(NoContentFound, <<>>, 0)
  ELSE LET extractedText == extractTextFromElement(TreeOf(ns, element)).text
           cleanedText == cleanText(extractedText)
       IN  Success(cleanedText, countWords(cleanedText), extractionMethod(ns, element))

\* extractArticleText answering with the text of the body when it has no
\* candidate.
extractArticleText_BodyText(ns, element) ==
  IF element = Null
  THEN Failure(NoContentFound, cleanText(textContent(ns, 0)),
               countWords(cleanText(textContent(ns, 0))))
  ELSE LET extractedText == extractTextFromElement(TreeOf(ns, element)).text
           cleanedText == cleanText(extractedText)
       IN  IF Length(cleanedText) < 100
           THEN Failure(ContentTooShort, cleanedText, countWords(cleanedText))
           ELSE Success(cleanedText, countWords(cleanedText),
                        extractionMethod(ns, element))

\* extractArticleText from "if (!contentElement)" on: what it returns.
extractArticleText(ns, element) ==
  IF element = Null
  THEN Failure(NoContentFound, <<>>, 0)
  ELSE LET extractedText == extractTextFromElement(TreeOf(ns, element)).text
           cleanedText == cleanText(extractedText)
       IN  IF Length(cleanedText) < 100
           THEN Failure(ContentTooShort, cleanedText, countWords(cleanedText))
           ELSE Success(cleanedText, countWords(cleanedText),
                        extractionMethod(ns, element))

\* The live document with the cleaned copy put in the place of the element.
afterExtract_CopyAttached(ns, element) ==
  IF element.ref > 0
  THEN Graft(ns, element.ref, RemoveExcluded(Subtree(ns, element.ref), excludeSelectors))
  ELSE ns

\* The live document after extractTextFromElement(element).
afterExtract(ns, element) ==
  IF element.ref > 0
  THEN Graft(ns, element.ref, extractTextFromElement(Subtree(ns, element.ref)).element)
  ELSE ns

\* The rest of extractArticleText, and sendResponse(result).
Respond ==
  /\ pc = "extract"
  /\ result' = extractArticleText(doc, contentElement)
  /\ doc' = afterExtract(doc, contentElement)
  /\ pc' = "done"
  /\ sent' = sent + 1
  /\ UNCHANGED <<listener, contentElement, tried, prev, runs, readyState, probe, outcome>>
  /\ UNCHANGED <<serviceVars, popupVars>>

\* The fallback listener taking 100 characters for enough.
fallbackExtract_AtLeast100(ns) ==
  LET bodyText == textContent(ns, 0)
      cleaned == Trim(ReplaceWhitespace(bodyText))
  IN  IF Length(cleaned) >= 100
      THEN Success(Substring(cleaned, 5000), Len(Split(cleaned)), "fallback")
      ELSE Failure("Page content too short for analysis", cleaned, 0)

\* The fallback listener's answer to extractText.
fallbackExtract(ns) ==
  LET bodyText == textContent(ns, 0)
      cleaned == Trim(ReplaceWhitespace(bodyText))
  IN  IF Length(cleaned) > 100
      THEN Success(Substring(cleaned, 5000), Len(Split(cleaned)), "fallback")
      ELSE Failure("Page content too short for analysis", cleaned, 0)

\* The fallback listener receives extractText.
FallbackExtractText ==
  /\ listener = "fallback"
  /\ pc \in {"idle", "done"}
  /\ runs < MaxRuns
  /\ runs' = runs + 1
  /\ prev' = result
  /\ result' = fallbackExtract(doc)
  /\ pc' = "done"
  /\ sent' = sent + 1
  /\ UNCHANGED <<doc, listener, contentElement, tried, readyState, probe, outcome>>
  /\ UNCHANGED <<serviceVars, popupVars>>

Next ==
  \/ ExtractText
  \/ WaitForPageLoad
  \/ SemanticArticle
  \/ SemanticMain
  \/ ClassBased
  \/ Heuristic
  \/ Paragraphs
  \/ Respond
  \/ FallbackExtractText

Spec == Init /\ [][Next]_vars

\* ------------------------------------------- the listener on a loading page

\* The pages the content script is loaded into before they are complete.
LoadingPages ==
  {Page(first, Block(1, <<>>, FALSE, 0), FALSE, Text120, Box(100, 800)) :
     first \in {Block(kind, <<>>, FALSE, k) :
                  kind \in {1, 3, 4, 11, Bare}, k \in {0, 2, MaxParas}}}

\* The content script is loaded into a page that may still be loading.
ListenerInit ==
  /\ doc \in LoadingPages
  /\ listener \in {"primary", "fallback"}
  /\ pc = "idle"
  /\ contentElement = Null
  /\ tried = <<>>
  /\ result = NoResult
  /\ prev = NoResult
  /\ runs = 0
  /\ readyState \in {"loading", "interactive", "complete"}
  /\ sent = 0
  /\ probe = NoProbe
  /\ outcome = <<>>
  /\ ServiceIdle
  /\ PopupIdle

\* The document goes from loading to interactive (DOMContentLoaded, at which
\* a primary listener that had to wait is registered) and from interactive to
\* complete.
DocumentLoads ==
  /\ readyState # "complete"
  /\ readyState' = IF readyState = "loading" THEN "interactive" ELSE "complete"
  /\ UNCHANGED <<doc, listener, pc, contentElement, tried, result, prev, runs, sent,
                 probe, outcome>>
  /\ UNCHANGED <<serviceVars, popupVars>>

ListenerNext == Next \/ DocumentLoads

\* A step of handleExtractTextRequest once it has been called: the handler
\* leaves the position it is at (what it does there is in the actions above).
\* It can when it is not waiting for the page, or the page is complete: the
\* timer of waitForPageLoad fires every 100 ms, and the rest runs to its end.
HandlerStep ==
  /\ listener = "primary"
  /\ pc \in {"waiting", "semantic-article", "semantic-main", "class-based",
             "heuristic", "paragraphs", "extract"}
  /\ pc = "waiting" => readyState = "complete"
  /\ pc' \in {"semantic-article", "semantic-main", "class-based", "heuristic",
              "paragraphs", "extract", "done"}
  /\ pc' # pc

ListenerSpec == ListenerInit /\ [][ListenerNext]_vars /\ WF_pc(HandlerStep)

\* ------------------------------------------- functions applied on their own

\* The most calls of a function on one argument.
MaxCalls == 2

ProbeClasses ==
  {"", "content", "site-footer", "site-", "nav-menu", "-", "Post SideBar", "Post "}

\* Pairs of class names: the first with a navigation word, the second the
\* same without it.
HintPairs ==
  {<<"site-footer", "site-">>, <<"nav-menu", "-">>, <<"Post SideBar", "Post ">>}

ProbeIds == {"", "Story"}

\* Own texts of 0, 250, 1999 and 2499 characters.
ProbeTexts == {<<>>, Text250, Words(4, 499), Words(5, 499)}

\* A container with k short paragraphs.
ProbeElement(cls, id, own, k, geo) ==
  <<Element("DIV", cls, id, 0, own, geo)>>
    \o [j \in 1..k |-> Element("P", "", "", 1, ShortText, geo)]

ScoreProbe(a, b) == [kind |-> "score", a |-> a, b |-> b]

\* Boxes in a viewport 1000 wide whose centers are 0, 149, 150, 151, 200,
\* 299, 299.5, 300 and 350 from the viewport's center, to the left of it and to
\* the right.
ProbeBoxes ==
  {Box(100, 800), Box(0, 702), Box(0, 700), Box(0, 698), Box(0, 600), Box(0, 402),
   Box(0, 401), Box(0, 400), Box(0, 300),
   Box(298, 702), Box(300, 700), Box(400, 600), Box(598, 402), Box(600, 400),
   Box(700, 300)}

\* Pairs of elements of which the second has at least the paragraphs and the
\* text of the first, and pairs that differ in a navigation word of the class.
ScoreProbes ==
  {ScoreProbe(ProbeElement(cls, id, own1, k1, geo), ProbeElement(cls, id, own2, k2, geo)) :
     cls \in ProbeClasses, id \in ProbeIds, geo \in {Box(100, 800), NoBox},
     own1 \in ProbeTexts, k1 \in 0..MaxParas,
     own2 \in ProbeTexts, k2 \in 0..MaxParas}
  \cup
  {ScoreProbe(ProbeElement(pair[1], id, own, k, geo), ProbeElement(pair[2], id, own, k, geo)) :
     pair \in HintPairs, id \in ProbeIds, geo \in {Box(100, 800), NoBox},
     own \in ProbeTexts, k \in 0..MaxParas}
  \cup
  {ScoreProbe(ProbeElement(cls, "", Text250, k, geo), ProbeElement(cls, "", Text250, k, NoBox)) :
     cls \in {"", "content"}, k \in 0..MaxParas, geo \in ProbeBoxes}

ExcludeProbes ==
  {[kind |-> "exclude", a |-> <<Element(tag, cls, id, 0, <<>>, NoBox)>>, b |-> <<>>] :
     tag \in {"NAV", "HEADER", "FOOTER", "ASIDE", "SCRIPT", "STYLE", "DIV", "P", "SECTION"},
     cls \in {"", "NavBar", "main-menu", "content", "downloads", "site-footer", "related"},
     id \in {"", "comments", "Story", "SharePopup"}}

\* A container whose k short paragraphs sit in an inner <div>.
NestedProbeElement(own, k) ==
  <<Element("DIV", "", "", 0, own, NoBox), Element("DIV", "", "", 1, <<>>, NoBox)>>
    \o [j \in 1..k |-> Element("P", "", "", 2, ShortText, NoBox)]

\* Own texts around the 200 characters that isValidContent asks for (the
\* paragraphs add 5 each), two of them with whitespace at the ends.
ValidTexts ==
  {<<>>, W(190), W(191), W(196), W(201), Indented(W(188)), Indented(W(190)),
   Cat(W(1), S(250))}

\* The elements isValidContent is asked about; <<>> is a missing element.
ValidProbes ==
  {[kind |-> "valid", a |-> tree, b |-> <<>>] :
     tree \in {<<>>}
       \cup {ProbeElement("", "", own, k, NoBox) : own \in ValidTexts, k \in 0..MaxParas}
       \cup {NestedProbeElement(own, k) : own \in ValidTexts, k \in 0..MaxParas}}

PureInit ==
  /\ doc = <<>>
  /\ listener = "primary"
  /\ pc = "idle"
  /\ contentElement = Null
  /\ tried = <<>>
  /\ result = NoResult
  /\ prev = NoResult
  /\ runs = 0
  /\ readyState = "complete"
  /\ sent = 0
  /\ probe \in ScoreProbes \cup ExcludeProbes \cup ValidProbes
  /\ outcome = <<>>
  /\ ServiceIdle
  /\ PopupIdle

\* calculateContentScore(a), calculateContentScore(b)
ScoreElements ==
  /\ probe.kind = "score"
  /\ outcome = <<>>
  /\ outcome' = <<calculateContentScore(probe.a, 1), calculateContentScore(probe.b, 1)>>
  /\ UNCHANGED <<doc, listener, pc, contentElement, tried, result, prev, runs,
                 readyState, sent, probe>>
  /\ UNCHANGED <<serviceVars, popupVars>>

\* shouldExcludeElement(a), once more
ExcludeElement ==
  /\ probe.kind = "exclude"
  /\ Len(outcome) < MaxCalls
  /\ outcome' = Append(outcome, shouldExcludeElement(probe.a[1]))
  /\ UNCHANGED <<doc, listener, pc, contentElement, tried, result, prev, runs,
                 readyState, sent, probe>>
  /\ UNCHANGED <<serviceVars, popupVars>>

\* isValidContent(a)
ValidateElement ==
  /\ probe.kind = "valid"
  /\ outcome = <<>>
  /\ outcome' = <<isValidContent(probe.a, IF probe.a = <<>> THEN 0 ELSE 1)>>
  /\ UNCHANGED <<doc, listener, pc, contentElement, tried, result, prev, runs,
                 readyState, sent, probe>>
  /\ UNCHANGED <<serviceVars, popupVars>>

PureNext == ScoreElements \/ ExcludeElement \/ ValidateElement

PureSpec == PureInit /\ [][PureNext]_vars

\* ------------------------------------------------- BiasDetectionService

\* this.cacheExpiry: 24 * 60 * 60 * 1000 milliseconds, in units of 8 hours
cacheExpiry == 3

\* The size above which saveToCache deletes the first entry.
cacheLimit == 100

\* text.charCodeAt(i), for letters and the blank
charCodeAt(text, i) ==
  LET c == SubSeq(text, i, i)
  IN  IF \E k \in 1..Len(Upper) : Upper[k] = c
      THEN 64 + (CHOOSE k \in 1..Len(Upper) : Upper[k] = c)
      ELSE IF \E k \in 1..Len(Lower) : Lower[k] = c
      THEN 96 + (CHOOSE k \in 1..Len(Lower) : Lower[k] = c)
      ELSE 32

\* ((hash << 5) - hash) + char, then hash & hash: 31 * hash + char as a signed
\* 32-bit integer, computed on the two 16-bit halves of hash.
HashStep(hash, char) ==
  LET lo == hash % 65536
      hi == (hash \div 65536) % 65536
      low == 31 * lo + char
      high == (31 * hi + (low \div 65536)) % 65536
  IN  (IF high >= 32768 THEN high - 65536 ELSE high) * 65536 + (low % 65536)

RECURSIVE HashLoop(_, _, _)
\* for (let i = 0; i < text.length; i++), from character i on
HashLoop(text, i, hash) ==
  IF i > Len(text) THEN hash
  ELSE HashLoop(text, i + 1, HashStep(hash, charCodeAt(text, i)))

\* BiasDetectionService.generateCacheKey (the number that hash.toString()
\* writes out)
generateCacheKey(text) == HashLoop(text, 1, 0)

\* this.cache.get(key): the index of the entry, 0 for undefined
CacheGet(entries, key) ==
  IF \E i \in 1..Len(entries) : entries[i].key = key
  THEN CHOOSE i \in 1..Len(entries) : entries[i].key = key
  ELSE 0

\* getFromCache answering also for an entry of exactly the expiry age.
getFromCache_AtExpiry(entries, key, clock) ==
  LET cached == CacheGet(entries, key)
  IN  IF cached # 0 /\ clock - entries[cached].timestamp <= cacheExpiry
      THEN cached ELSE 0

\* BiasDetectionService.getFromCache: the index of the entry whose result it
\* returns, 0 for null
getFromCache(entries, key, clock) ==
  LET cached == CacheGet(entries, key)
  IN  IF cached # 0 /\ clock - entries[cached].timestamp < cacheExpiry
      THEN cached ELSE 0

\* this.cache.set(key, {result, timestamp}): Map.set keeps the place of a key
\* that is there already and appends a new one.
CacheSet(entries, key, value, clock) ==
  LET entry == [key |-> key, result |-> value, timestamp |-> clock]
      at == CacheGet(entries, key)
  IN  IF at # 0 THEN [entries EXCEPT ![at] = entry] ELSE Append(entries, entry)

\* saveToCache that deletes nothing.
saveToCache_KeepsAll(entries, key, value, clock) ==
  CacheSet(entries, key, value, clock)

\* BiasDetectionService.saveToCache: above the limit the first key of the map
\* (this.cache.keys().next().value) is deleted.
saveToCache(entries, key, value, clock) ==
  LET set == CacheSet(entries, key, value, clock)
  IN  IF Len(set) > cacheLimit THEN Tail(set) ELSE set

\* The entry that saveToCache deletes (oldestKey's), if it deletes one.
deleted(entries, key, value, clock, before) ==
  LET set == CacheSet(entries, key, value, clock)
  IN  IF Len(set) > cacheLimit THEN set[1] ELSE before

\* The most analyzeText calls.
MaxAnalyses == 3

\* The latest time of the clock.
MaxClock == 4

\* The texts analysed ("Aa" and "BB" have one cache key).
Texts == {"Aa", "BB", "Bias in the news"}

\* What the backend answers: a result, or a failure (a rejected fetch, a
\* response that is not ok, a result without success).
BackendResult(text, score) ==
  [success |-> TRUE, overallScore |-> score, apiUsed |-> "perspective", of |-> text]

\* analyzeText's catch: the fallback result
FallbackResult(text) ==
  [success |-> TRUE, overallScore |-> "unknown", apiUsed |-> "error", of |-> text]

\* What extractAndAnalyze returns from its catch.
Failed(message) ==
  [settled |-> "fulfilled", success |-> FALSE, overallScore |-> "unknown",
   error |-> message]

\* What extractAndAnalyze returns after analyzeText:
\* {success: true, ...analysisResult, extractionInfo}, in which the success of
\* the analysis result overwrites the true.
Analysed(analysis) ==
  [settled |-> "fulfilled", success |-> analysis.success,
   overallScore |-> analysis.overallScore, error |-> ""]

\* An extractAndAnalyze call that has returned.
Returned(job, verdict) == [job EXCEPT !.stage = "returned", !.verdict = verdict]

\* The extractAndAnalyze calls that await the analyzeText call p: they return
\* its result.
AfterAnalysis(p, analysis) ==
  [j \in 1..Len(jobs) |->
     IF jobs[j].stage = "analyzing" /\ jobs[j].call = p.n
     THEN Returned(jobs[j], Analysed(analysis))
     ELSE jobs[j]]

\* analyzeText(text) up to its await fetch(...): the cached result is
\* returned, or the request is sent.
analyzeText(text) ==
  LET cacheKey == generateCacheKey(text)
      cachedResult == getFromCache(cache, cacheKey, now)
  IN  /\ call' = [n |-> call.n + 1, text |-> text]
      /\ IF cachedResult # 0
         THEN /\ answer' = [n |-> call.n + 1, text |-> text,
                            result |-> cache[cachedResult].result,
                            cached |-> TRUE,
                            age |-> now - cache[cachedResult].timestamp]
              /\ UNCHANGED <<pending, requests>>
         ELSE /\ pending' = pending \cup {[n |-> call.n + 1, text |-> text]}
              /\ requests' = requests + 1
              /\ UNCHANGED answer

\* analyzeText is called with a text.
AnalyzeText ==
  /\ call.n < MaxAnalyses
  /\ \E text \in Texts : analyzeText(text)
  /\ UNCHANGED <<cache, now, jobs, channels, evicted>>
  /\ UNCHANGED <<extractorVars, popupVars>>

\* analyzeText after its await: the backend's result is saved and returned.
BackendSucceeds ==
  /\ \E p \in pending : \E score \in {"low", "high"} :
       LET analysis == BackendResult(p.text, score)
       IN  /\ cache' = saveToCache(cache, generateCacheKey(p.text), analysis, now)
           /\ answer' = [n |-> p.n, text |-> p.text, result |-> analysis,
                         cached |-> FALSE, age |-> 0]
           /\ pending' = pending \ {p}
           /\ jobs' = AfterAnalysis(p, analysis)
           /\ evicted' = deleted(cache, generateCacheKey(p.text), analysis, now, evicted)
  /\ UNCHANGED <<now, requests, call, channels>>
  /\ UNCHANGED <<extractorVars, popupVars>>

\* analyzeText after its await: the fetch failed, the response was not ok or
\* the result had no success; the catch returns the fallback result.
BackendFails ==
  /\ \E p \in pending :
       /\ answer' = [n |-> p.n, text |-> p.text, result |-> FallbackResult(p.text),
                     cached |-> FALSE, age |-> 0]
       /\ pending' = pending \ {p}
       /\ jobs' = AfterAnalysis(p, FallbackResult(p.text))
  /\ UNCHANGED <<cache, now, requests, call, channels, evicted>>
  /\ UNCHANGED <<extractorVars, popupVars>>

\* Time passes.
Tick ==
  /\ now < MaxClock
  /\ now' = now + 1
  /\ UNCHANGED <<cache, pending, requests, call, answer, jobs, channels, evicted>>
  /\ UNCHANGED <<extractorVars, popupVars>>

ServiceInit ==
  /\ doc = <<>>
  /\ listener = "primary"
  /\ pc = "idle"
  /\ contentElement = Null
  /\ tried = <<>>
  /\ result = NoResult
  /\ prev = NoResult
  /\ runs = 0
  /\ readyState = "complete"
  /\ sent = 0
  /\ probe = NoProbe
  /\ outcome = <<>>
  /\ ServiceIdle
  /\ PopupIdle

ServiceNext == AnalyzeText \/ BackendSucceeds \/ BackendFails \/ Tick

ServiceSpec == ServiceInit /\ [][ServiceNext]_vars

\* ------------------------------------------------------- a full cache

\* 99 texts of two small letters, with 99 cache keys that no text of Texts
\* has.
FillerTexts ==
  [k \in 1..(cacheLimit - 1) |-> Lower[((k - 1) \div 26) + 1] \o Lower[((k - 1) % 26) + 1]]

\* The entry that a backend result for a text leaves in the cache.
EntryFor(text, clock) ==
  [key |-> generateCacheKey(text), result |-> BackendResult(text, "low"),
   timestamp |-> clock]

Fillers == [k \in 1..Len(FillerTexts) |-> EntryFor(FillerTexts[k], 0)]

\* The cache after 99 or 100 analyses made at time 0, of the filler texts and
\* of one text of Texts, analysed first or last.
FullCaches ==
  {Fillers} \cup {<<EntryFor(text, 0)>> \o Fillers : text \in {"Aa", "Bias in the news"}}
    \cup {Fillers \o <<EntryFor("Bias in the news", 0)>>}

\* The service with 99 or 100 results in its cache.
CacheInit ==
  /\ doc = <<>>
  /\ listener = "primary"
  /\ pc = "idle"
  /\ contentElement = Null
  /\ tried = <<>>
  /\ result = NoResult
  /\ prev = NoResult
  /\ runs = 0
  /\ readyState = "complete"
  /\ sent = 0
  /\ probe = NoProbe
  /\ outcome = <<>>
  /\ cache \in FullCaches
  /\ now = 0
  /\ pending = {}
  /\ requests = 0
  /\ call = [n |-> 0, text |-> ""]
  /\ answer = NoAnswer
  /\ jobs = <<>>
  /\ channels = {}
  /\ evicted = NoEntry
  /\ PopupIdle

CacheSpec == CacheInit /\ [][ServiceNext]_vars

\* ----------------------------------------------------- extractAndAnalyze

\* The most extractAndAnalyze calls.
MaxJobs == 2

\* What chrome.tabs.query gives: no tab, or the active tab with its url ("": a
\* tab without a url).
TabLists ==
  {<<>>, <<"">>, <<"chrome://extensions">>, <<"file:///a.html">>, <<"ftp://host/a">>,
   <<"https://news.example/a">>}

\* String.prototype.startsWith
startsWith(str, prefix) ==
  Len(str) >= Len(prefix) /\ SubSeq(str, 1, Len(prefix)) = prefix

\* BiasDetectionService.canInjectScript
canInjectScript(url) ==
  IF url = "" THEN FALSE
  ELSE IF \/ startsWith(url, "chrome://") \/ startsWith(url, "chrome-extension://")
          \/ startsWith(url, "moz-extension://") \/ startsWith(url, "edge://")
          \/ startsWith(url, "about:") \/ startsWith(url, "file://")
       THEN FALSE
  ELSE startsWith(url, "http://") \/ startsWith(url, "https://")

\* No extraction result yet.
NoExtraction == [kind |-> "none", success |-> FALSE, text |-> "", error |-> ""]

\* What the callback of chrome.tabs.sendMessage may be called with: an
\* extraction result, nothing, or nothing with chrome.runtime.lastError set.
Responses ==
  {[kind |-> "result", success |-> TRUE, text |-> text, error |-> ""] : text \in Texts}
    \cup {[kind |-> "result", success |-> FALSE, text |-> "", error |-> error] :
            error \in {"", NoContentFound}}
    \cup {[kind |-> "undefined", success |-> FALSE, text |-> "", error |-> ""],
          [kind |-> "lastError", success |-> FALSE, text |-> "", error |-> ""]}

\* extractAndAnalyze is called: the active tab is looked up and its url
\* checked.
ExtractAndAnalyze ==
  /\ Len(jobs) < MaxJobs
  /\ \E tabs \in TabLists :
       LET job == [stage |-> "injecting", extraction |-> NoExtraction, call |-> 0,
                   verdict |-> [settled |-> "pending", success |-> FALSE,
                                overallScore |-> "", error |-> ""]]
       IN  jobs' = Append(jobs,
                     IF tabs = <<>>
                     THEN Returned(job, Failed("No active tab found"))
                     ELSE IF ~canInjectScript(tabs[1])
                     THEN Returned(job, Failed("Cannot analyze this type of page. Please navigate to an article or blog post."))
                     ELSE job)
  /\ UNCHANGED <<cache, now, pending, requests, call, answer, channels, evicted>>
  /\ UNCHANGED <<extractorVars, popupVars>>

\* ensureContentScriptInjected returns (the content script answered the ping,
\* or was injected) or throws (the injection failed); on its return
\* extractTextFromTab sets its timer and sends extractText.
EnsureContentScriptInjected ==
  /\ \E j \in 1..Len(jobs) : \E script \in {"pong", "injected", "failed"} :
       /\ jobs[j].stage = "injecting"
       /\ IF script = "failed"
          THEN /\ jobs' = [jobs EXCEPT ![j] = Returned(jobs[j],
                             Failed("Failed to inject content script. Please refresh the page and try again."))]
               /\ UNCHANGED channels
          ELSE /\ jobs' = [jobs EXCEPT ![j].stage = "extracting"]
               /\ channels' = channels \cup {j}
  /\ UNCHANGED <<cache, now, pending, requests, call, answer, evicted>>
  /\ UNCHANGED <<extractorVars, popupVars>>

\* The timer of extractTextFromTab fires after 20 seconds: the promise is
\* rejected, and extractAndAnalyze's catch returns.
Timeout ==
  /\ \E j \in 1..Len(jobs) :
       /\ jobs[j].stage = "extracting"
       /\ jobs' = [jobs EXCEPT ![j] = Returned(jobs[j],
                     Failed("Content script communication timeout. Please refresh the page and try again."))]
  /\ UNCHANGED <<cache, now, pending, requests, call, answer, channels, evicted>>
  /\ UNCHANGED <<extractorVars, popupVars>>

\* The promise of extractTextFromTab is settled for good.
Settled_Never(job) == FALSE

\* The promise of extractTextFromTab is settled already: its timer has fired.
Settled(job) == job.stage # "extracting"

\* The error extractAndAnalyze throws on a response that is not a successful
\* extraction result.
ExtractionError(response) ==
  IF response.kind = "lastError"
  THEN "Failed to communicate with page content. Please refresh the page and try again."
  ELSE IF response.kind = "undefined"
  THEN "No response from page content. Please refresh the page and try again."
  ELSE IF response.error # "" THEN response.error
  ELSE "Failed to extract text from page"

\* The callback of chrome.tabs.sendMessage is called.  On a promise that the
\* timer has rejected, resolve and reject do nothing.  Otherwise extractAndAnalyze
\* goes on: it throws on anything but a successful extraction result (its catch
\* returns), and calls analyzeText on the text of a successful one.
ExtractionResponse ==
  /\ \E j \in channels : \E response \in Responses :
       /\ channels' = channels \ {j}
       /\ IF Settled(jobs[j])
          THEN UNCHANGED <<jobs, pending, requests, call, answer>>
          ELSE IF ~response.success
          THEN /\ jobs' = [jobs EXCEPT ![j] =
                             Returned([jobs[j] EXCEPT !.extraction = response],
                                      Failed(ExtractionError(response)))]
               /\ UNCHANGED <<pending, requests, call, answer>>
          ELSE /\ analyzeText(response.text)
               /\ LET cachedResult == getFromCache(cache, generateCacheKey(response.text), now)
                      job == [jobs[j] EXCEPT !.extraction = response, !.call = call.n + 1]
                  IN  jobs' = [jobs EXCEPT ![j] =
                                 IF cachedResult # 0
                                 THEN Returned(job, Analysed(cache[cachedResult].result))
                                 ELSE [job EXCEPT !.stage = "analyzing"]]
  /\ UNCHANGED <<cache, now, evicted>>
  /\ UNCHANGED <<extractorVars, popupVars>>

BackgroundInit ==
  /\ doc = <<>>
  /\ listener = "primary"
  /\ pc = "idle"
  /\ contentElement = Null
  /\ tried = <<>>
  /\ result = NoResult
  /\ prev = NoResult
  /\ runs = 0
  /\ readyState = "complete"
  /\ sent = 0
  /\ probe = NoProbe
  /\ outcome = <<>>
  /\ ServiceIdle
  /\ PopupIdle

BackgroundNext ==
  \/ ExtractAndAnalyze
  \/ EnsureContentScriptInjected
  \/ Timeout
  \/ ExtractionResponse
  \/ BackendSucceeds
  \/ BackendFails
  \/ Tick

BackgroundSpec == BackgroundInit /\ [][BackgroundNext]_vars

\* ------------------------------------------------------ PopupController

\* The most analyses a user starts.
MaxScans == 3

\* startAnalysis up to its await: the scan button (shown in 'initial'), the
\* retry button (shown in 'error') or the Enter key in 'initial'.
StartAnalysis ==
  /\ currentState \in {"initial", "error"}
  /\ scans < MaxScans
  /\ scans' = scans + 1
  /\ currentState' = "loading"
  /\ inflight' = inflight \cup {scans + 1}
  /\ UNCHANGED <<analysisResult, shown, cancelled>>
  /\ UNCHANGED <<extractorVars, serviceVars>>

\* cancelAnalysis: the cancel button (shown in 'loading') or the Escape key in
\* 'loading'.  The analyses under way are the ones the user cancels.
CancelAnalysis ==
  /\ currentState = "loading"
  /\ currentState' = "initial"
  /\ cancelled' = cancelled \cup inflight
  /\ UNCHANGED <<analysisResult, shown, inflight, scans>>
  /\ UNCHANGED <<extractorVars, serviceVars>>

\* resetToInitial: the new-scan button (shown in 'results')
ResetToInitial ==
  /\ currentState = "results"
  /\ analysisResult' = NoAnalysis
  /\ currentState' = "initial"
  /\ UNCHANGED <<shown, inflight, cancelled, scans>>
  /\ UNCHANGED <<extractorVars, serviceVars>>

\* startAnalysis after its await: the background script has answered the
\* message with a result that has success.
ResponseSuccess ==
  /\ \E id \in inflight :
       /\ analysisResult' = [success |-> TRUE, of |-> id]
       /\ shown' = [kind |-> "results", of |-> id]
       /\ inflight' = inflight \ {id}
  /\ currentState' = "results"
  /\ UNCHANGED <<cancelled, scans>>
  /\ UNCHANGED <<extractorVars, serviceVars>>

\* startAnalysis after its await: the answer has no success, or sendMessage
\* rejected (chrome.runtime.lastError).
ResponseFailure ==
  /\ \E id \in inflight :
       /\ shown' = [kind |-> "error", of |-> id]
       /\ inflight' = inflight \ {id}
  /\ currentState' = "error"
  /\ UNCHANGED <<analysisResult, cancelled, scans>>
  /\ UNCHANGED <<extractorVars, serviceVars>>

PopupInit ==
  /\ doc = <<>>
  /\ listener = "primary"
  /\ pc = "idle"
  /\ contentElement = Null
  /\ tried = <<>>
  /\ result = NoResult
  /\ prev = NoResult
  /\ runs = 0
  /\ readyState = "complete"
  /\ sent = 0
  /\ probe = NoProbe
  /\ outcome = <<>>
  /\ ServiceIdle
  /\ PopupIdle

PopupNext ==
  \/ StartAnalysis
  \/ CancelAnalysis
  \/ ResetToInitial
  \/ ResponseSuccess
  \/ ResponseFailure

PopupSpec == PopupInit /\ [][PopupNext]_vars

\* ----------------------------------------------------------------- claims

\* The primary listener has answered the extractText request.
PrimaryDone == listener = "primary" /\ pc = "done"

\* The number of whitespace-delimited non-empty tokens of a text.
Tokens(t) == Cardinality(WordRuns(t))

\* The document without its extraction tags.
Untagged(ns) == [k \in 1..Len(ns) |-> [ns[k] EXCEPT !.method = ""]]

NoBlock == Block(1, <<>>, FALSE, 0)

\* The nodes of the document with the given tag.
WithTag(ns, tag) == {i \in 1..Len(ns) : ns[i].tag = tag}

\* The claims' "trimmed text longer than 200 characters and at least 2
\* paragraph descendants".
LongWithTwoParagraphs(ns, i) ==
  /\ Length(Trim(textContent(ns, i))) > 200
  /\ Cardinality({j \in WithTag(ns, "P") : IsInside(ns, j, i)}) >= 2

\* C1: every ExtractionResult sent for an extractText request, by the primary
\* path or by the fallback listener, has text of at least 100 characters and a
\* word count of at least 1 when success is true, and an error message when
\* success is false.
C1_ResultInvariant ==
  pc = "done" =>
    /\ result.success => Length(result.text) >= 100 /\ result.wordCount >= 1
    /\ ~result.success => result.error # ""

C1_Witness ==
  /\ PrimaryDone
  /\ result.success
  /\ Length(result.text) >= 100
  /\ result.wordCount >= 1

StrategyOrder ==
  <<"semantic-article", "semantic-main", "class-based", "heuristic", "paragraphs">>

\* C2: the strategies run in the fixed order semantic-article, semantic-main,
\* class-based, heuristic, paragraphs; a strategy runs only if every earlier
\* one yielded no candidate; the candidate is that of the first strategy that
\* found one, and the reported extractionMethod is that strategy's tag.
C2_CascadeOrder ==
  /\ Len(tried) <= Len(StrategyOrder)
  /\ \A k \in 1..Len(tried) :
       /\ tried[k].strategy = StrategyOrder[k]
       /\ tried[k].found => k = Len(tried)
  /\ contentElement # Null <=> (tried # <<>> /\ tried[Len(tried)].found)
  /\ pc \in Range(StrategyOrder) =>
       /\ contentElement = Null
       /\ pc = StrategyOrder[Len(tried) + 1]
  /\ PrimaryDone /\ contentElement = Null => Len(tried) = Len(StrategyOrder)
  /\ PrimaryDone /\ result.success =>
       /\ tried[Len(tried)].found
       /\ result.extractionMethod = tried[Len(tried)].strategy

C2_Witness ==
  /\ PrimaryDone
  /\ result.success
  /\ Len(tried) = 4
  /\ result.extractionMethod = "heuristic"

\* C3 as stated: a document that contains an <article> with more than 200
\* characters of trimmed text and at least 2 paragraphs gives success with
\* extractionMethod semantic-article.
C3_AnyValidArticle ==
  (PrimaryDone /\ \E i \in WithTag(doc, "ARTICLE") : LongWithTwoParagraphs(doc, i))
    => result.success /\ result.extractionMethod = "semantic-article"

\* C3 amended: when the first <article> of the document has more than 200
\* characters of trimmed text and at least 2 paragraphs, it is the candidate of
\* the semantic-article strategy, and the result is success with
\* extractionMethod semantic-article if the cleaned text extracted from it has
\* at least 100 characters, and the content-too-short failure otherwise.
C3_FirstValidArticle ==
  (PrimaryDone /\ WithTag(doc, "ARTICLE") # {}
     /\ LongWithTwoParagraphs(doc, Lowest(WithTag(doc, "ARTICLE"))))
    => LET first == Lowest(WithTag(doc, "ARTICLE"))
           cleaned == cleanText(extractTextFromElement(Subtree(doc, first)).text)
       IN  /\ contentElement = Live(first)
           /\ tried = <<Ran("semantic-article", TRUE)>>
           /\ IF Length(cleaned) >= 100
              THEN result.success /\ result.extractionMethod = "semantic-article"
              ELSE ~result.success /\ result.error = ContentTooShort

C3_Witness ==
  /\ PrimaryDone
  /\ Cardinality(WithTag(doc, "ARTICLE")) = 2
  /\ LongWithTwoParagraphs(doc, Lowest(WithTag(doc, "ARTICLE")))
  /\ result.success
  /\ result.extractionMethod = "semantic-article"

\* The class names of the content selectors.
ContentClasses ==
  {"content", "article-content", "post-content", "entry-content", "article-body",
   "post-body", "story-body", "article-text", "content-body", "main-content"}

\* The exclusion rule as the specification words it: an excluded tag, or an
\* exclusion word in the class or the id (letter case set aside).
ExcludedByRule(node) ==
  \/ toLowerCase(node.tag) \in {"nav", "header", "footer", "aside", "script", "style"}
  \/ \E kw \in {"nav", "menu", "sidebar", "ads", "advertisement", "comments",
                "social", "share", "popup", "modal"} :
       includes(toLowerCase(node.cls), kw) \/ includes(toLowerCase(node.id), kw)

\* No <article>, no <main>, and no node that a content class selector matches.
NoMarkers(ns) ==
  /\ WithTag(ns, "ARTICLE") = {} /\ WithTag(ns, "MAIN") = {}
  /\ \A i \in 1..Len(ns) : \A c \in ContentClasses : ~HasClass(ns[i].cls, c)

\* The paragraphs of the document, in document order.
ParagraphsOf(ns) == SelectSeq([j \in 1..Len(ns) |-> j], LAMBDA j : ns[j].tag = "P")

\* At least 3 paragraphs, each longer than 50 characters, none inside an
\* excluded container, more than 200 characters together.
GoodParagraphs(ns) ==
  LET ps == ParagraphsOf(ns)
  IN  /\ Len(ps) >= 3
      /\ \A k \in 1..Len(ps) :
           /\ Length(Trim(textContent(ns, ps[k]))) > 50
           /\ \A a \in 1..Len(ns) : IsInside(ns, ps[k], a) => ~ExcludedByRule(ns[a])
      /\ Length(Flatten([k \in 1..Len(ps) |-> Trim(textContent(ns, ps[k]))])) > 200

JoinedParagraphs(ns) ==
  LET ps == ParagraphsOf(ns)
  IN  Trim(Flatten([k \in 1..Len(ps) |->
             ReplaceWhitespace(Trim(textContent(ns, ps[k]))) \o S(1)]))

C5_ShortTextWordCount ==
  (pc = "done" /\ Length(Trim(ReplaceWhitespace(textContent(doc, 0)))) < 100)
    => /\ ~result.success
       /\ result.error # ""
       /\ result.wordCount = Tokens(result.text)

\* The fallback listener has answered for a short page: the text is attached,
\* the word count is 0.
C5_Witness ==
  /\ listener = "fallback" /\ pc = "done"
  /\ ~result.success
  /\ Tokens(result.text) > 0
  /\ result.wordCount = 0

\* The page of the end-to-end example: an <article> holding an <h1> "Title"
\* and two paragraphs of 60 characters each, and nothing else.
ExamplePage(geo) == Page(Block(1, <<>>, TRUE, 2), NoBlock, FALSE, Sentence60, geo)

IsExamplePage == \E geo \in Boxes : Untagged(doc) = ExamplePage(geo)

NavPage(geo) == Page(Block(7, MenuText, FALSE, 0), NoBlock, FALSE, ShortText, geo)

IsNavPage == \E geo \in Boxes : Untagged(doc) = NavPage(geo)

\* C7: on the page that holds only a <nav> with 500 characters of menu text
\* every strategy yields no candidate; and whenever all strategies are
\* exhausted the result is success = false with the no-content-found message,
\* empty text and wordCount 0.
C7_NothingFound ==
  /\ (PrimaryDone /\ IsNavPage)
       => /\ contentElement = Null
          /\ Len(tried) = 5 /\ \A k \in 1..5 : ~tried[k].found
  /\ (PrimaryDone /\ Len(tried) = 5
        /\ \A k \in 1..5 : ~tried[k].found /\ ~tried[k].threw)
       => /\ ~result.success
          /\ result.error = NoContentFound
          /\ result.text = <<>>
          /\ result.wordCount = 0

C7_Witness ==
  /\ PrimaryDone /\ IsNavPage
  /\ Length(textContent(doc, 0)) = 500
  /\ ~result.success

\* C10: normalizing the same candidate twice, the document not changed in
\* between, gives the same text and the same word count: a second extraction
\* request on the page returns the text and word count of the first.
C10_SecondRunSame ==
  (pc = "done" /\ runs >= 2)
    => /\ result.text = prev.text
       /\ result.wordCount = prev.wordCount
       /\ result.success = prev.success

\* The second normalization of a candidate from whose copy the first removed
\* excluded descendants.
C10_Witness ==
  /\ PrimaryDone /\ runs = 2
  /\ result.success
  /\ contentElement.ref > 0
  /\ \E j \in 1..Len(doc) :
       /\ IsInside(doc, j, contentElement.ref)
       /\ \E sel \in Range(excludeSelectors) : Matches(doc[j], sel)

\* The class holds one of the scorer's navigation words.
Hinted(cls) ==
  \E kw \in {"nav", "sidebar", "menu", "footer"} : includes(toLowerCase(cls), kw)

\* The class holds one of the scorer's content words.
ContentWord(cls) ==
  \E kw \in {"content", "article", "post", "story"} : includes(toLowerCase(cls), kw)

\* C8: with class, id and geometry the same, more paragraph descendants or
\* more text never lower the score: the score rises by 2 per paragraph and by
\* the rise of min(textLength / 100, 20) (scores in hundredths); and a
\* navigation word (nav, sidebar, menu, footer) in the class lowers the score
\* by exactly 20 against the same node without it.
C8_ScoreMonotone ==
  (probe.kind = "score" /\ outcome # <<>>)
    => LET a == probe.a
           b == probe.b
           pa == Len(a) - 1
           pb == Len(b) - 1
           la == Length(Trim(textContent(a, 1)))
           lb == Length(Trim(textContent(b, 1)))
       IN  /\ (a[1].cls = b[1].cls /\ a[1].geo = b[1].geo /\ pa <= pb /\ la <= lb)
                => /\ outcome[2] >= outcome[1]
                   /\ outcome[2] - outcome[1]
                        = 200 * (pb - pa) + Min(lb, 2000) - Min(la, 2000)
           /\ (Hinted(a[1].cls) /\ ~Hinted(b[1].cls)
                 /\ (ContentWord(a[1].cls) <=> ContentWord(b[1].cls))
                 /\ a[1].geo = b[1].geo /\ pa = pb /\ la = lb)
                => outcome[1] = outcome[2] - 2000

\* A pair with two navigation words in the first class, scored.
C8_Witness ==
  /\ probe.kind = "score" /\ outcome # <<>>
  /\ probe.a[1].cls = "nav-menu" /\ probe.b[1].cls = "-"
  /\ outcome[1] = outcome[2] - 2000
  /\ Len(probe.a) = 3

ParagraphsFault(ns) ==
  /\ Cardinality(WithTag(ns, "P")) >= 3
  /\ \E j \in WithTag(ns, "P") :
       /\ Length(Trim(textContent(ns, j))) > 50
       /\ classNameThrows(parentElement(ns, j))

\* C11: a fault thrown inside extractArticleText does not leave it: when the
\* paragraphs strategy is reached on a page where shouldExcludeElement throws,
\* the strategy is the last one run, and the answer sent is success = false
\* with the error "Failed to extract article text: " and the fault's message,
\* empty text and wordCount 0.
C11_FaultsCaptured ==
  /\ \A k \in 1..Len(tried) :
       tried[k].threw
         => /\ k = Len(tried)
            /\ pc = "done"
            /\ contentElement = Null
            /\ ~result.success
            /\ result.error = "Failed to extract article text: " \o TypeErrorMessage
            /\ result.text = <<>>
            /\ result.wordCount = 0
  /\ (Len(tried) = 5 /\ ParagraphsFault(doc)) => tried[5].threw

C11_Witness ==
  /\ PrimaryDone
  /\ Len(tried) = 5 /\ tried[5].threw
  /\ ~result.success
  /\ result.error # ""
  /\ result.text = <<>>

\* C12 as stated: the live document is read-only for the extraction; no node
\* of it carries, after any number of extraction requests, an attribute it did
\* not have when the page was loaded (no node is loaded with a
\* data-extraction-method attribute).
C12_DocumentReadOnly ==
  \A k \in 1..Len(doc) : doc[k].method = ""

\* A second request starts on a document that carries the tag the first
\* request wrote.
C12_Witness ==
  /\ listener = "primary"
  /\ runs = 2 /\ pc = "semantic-article"
  /\ prev.success
  /\ \E k \in 1..Len(doc) : doc[k].method = prev.extractionMethod

\* The entries of the cache under the key of a text.
EntriesFor(text) ==
  {i \in 1..Len(cache) : cache[i].key = generateCacheKey(text)}

\* C13, first part: an analyzeText call for a text whose cache entry is
\* younger than 24 hours (3 units of 8 hours) returns the result of that entry and makes no
\* backend request.
C13_FreshEntryServed ==
  [][call'.n # call.n
       => \A i \in EntriesFor(call'.text) :
            now - cache[i].timestamp < 3
              => /\ requests' = requests
                 /\ pending' = pending
                 /\ answer'.n = call'.n
                 /\ answer'.cached
                 /\ answer'.result = cache[i].result]_vars

\* C13, second part: a result that analyzeText returned from the cache came
\* from an entry less than 24 hours old, and a call that waits for the backend
\* has made a request.
C13_NoStaleEntry ==
  /\ answer.cached => answer.age < 3
  /\ Cardinality(pending) <= requests

\* C13: both parts.
C13_CacheServesFresh == C13_FreshEntryServed /\ []C13_NoStaleEntry

\* An entry 16 hours old has been served from the cache.
C13_Witness ==
  /\ answer.cached
  /\ answer.age = 2
  /\ requests = 1

\* C14 as stated: the result or error of an analysis that the user cancelled
\* is never displayed nor stored in analysisResult, whenever the background
\* response arrives.
C14_CancelledNeverShown ==
  /\ analysisResult.of \notin cancelled
  /\ shown.of \notin cancelled

\* The one analysis started was cancelled, and the popup shows its result.
C14_Witness ==
  /\ scans = 1
  /\ cancelled = {1}
  /\ currentState = "results"
  /\ analysisResult = [success |-> TRUE, of |-> 1]

\* The text of all the nodes of a tree, in document order, trimmed.
TrimmedText(tree) == Trim(Flatten([k \in 1..Len(tree) |-> tree[k].text]))

\* C15: isValidContent(node) is true if and only if the node's trimmed text is
\* longer than 200 characters and the node has at least 2 paragraph
\* descendants; it is false for a missing node.
C15_ValidIff ==
  (probe.kind = "valid" /\ outcome # <<>>)
    => /\ probe.a = <<>> => outcome[1] = FALSE
       /\ probe.a # <<>> =>
            (outcome[1] <=>
               /\ Length(TrimmedText(probe.a)) > 200
               /\ Cardinality({j \in 2..Len(probe.a) : probe.a[j].tag = "P"}) >= 2)

\* A node of 201 characters with 2 paragraphs under an inner <div>, found
\* valid.
C15_Witness ==
  /\ probe.kind = "valid"
  /\ outcome = <<TRUE>>
  /\ Length(TrimmedText(probe.a)) = 201
  /\ Len(probe.a) = 4 /\ probe.a[3].parent = 2

\* The content classes in the order of the selector list.
ContentClassOrder ==
  <<"content", "article-content", "post-content", "entry-content", "article-body",
    "post-body", "story-body", "article-text", "content-body", "main-content">>

\* The nodes of the document that carry the k-th content class.
WithContentClass(ns, k) ==
  {i \in 1..Len(ns) : HasClass(ns[i].cls, ContentClassOrder[k])}

\* The class-based strategy has run in this call.
ClassBasedRan == listener = "primary" /\ Len(tried) >= 3

\* C16 as stated: only the first node in document order of the first selector
\* that matches anything is considered; the outcome of the class-based
\* strategy depends on no other node.
C16_OnlyFirstMatchingSelector ==
  ClassBasedRan =>
    LET matching == {k \in 1..Len(ContentClassOrder) : WithContentClass(doc, k) # {}}
    IN  IF matching = {} THEN ~tried[3].found
        ELSE LET node == Lowest(WithContentClass(doc, Lowest(matching)))
             IN  IF LongWithTwoParagraphs(doc, node)
                 THEN tried[3].found /\ contentElement = Live(node)
                 ELSE ~tried[3].found

\* C16 amended: the selectors are tried in list order and are not merged; of
\* each selector only the first match in document order is considered; the
\* strategy returns the first match of the first selector whose first match is
\* valid content, and none when no selector's first match is valid.
C16_FirstValidSelector ==
  ClassBasedRan =>
    LET valid == {k \in 1..Len(ContentClassOrder) :
                    /\ WithContentClass(doc, k) # {}
                    /\ LongWithTwoParagraphs(doc, Lowest(WithContentClass(doc, k)))}
    IN  IF valid = {} THEN ~tried[3].found
        ELSE /\ tried[3].found
             /\ contentElement = Live(Lowest(WithContentClass(doc, Lowest(valid))))

\* The first .content node is not valid content, and the strategy has gone on
\* to take the .article-body node.
C16_Witness ==
  /\ PrimaryDone /\ result.success
  /\ result.extractionMethod = "class-based"
  /\ WithContentClass(doc, 1) # {}
  /\ contentElement.ref \in WithContentClass(doc, 5)
  /\ contentElement.ref \notin WithContentClass(doc, 1)

\* The heuristic strategy has run in this call.
HeuristicRan == listener = "primary" /\ Len(tried) >= 4

\* The div, section, article and main nodes that the exclusion rule lets pass.
Containers(ns) ==
  {i \in 1..Len(ns) :
     /\ ns[i].tag \in {"DIV", "SECTION", "ARTICLE", "MAIN"}
     /\ ~ExcludedByRule(ns[i])}

\* C17: the heuristic strategy returns the div/section/article/main node that
\* is not excluded and has the maximum content score, the first such node in
\* document order on a tie, and only if that score is greater than 10;
\* otherwise it returns none.  An excluded node is never returned.
C17_MaximumScore ==
  HeuristicRan =>
    LET cands == Containers(doc)
        Score(i) == calculateContentScore(doc, i)
        top == {i \in cands : \A j \in cands : Score(j) <= Score(i)}
    IN  /\ IF cands # {} /\ Score(Lowest(top)) > 1000
           THEN tried[4].found /\ contentElement = Live(Lowest(top))
           ELSE ~tried[4].found
        /\ tried[4].found => ~ExcludedByRule(doc[contentElement.ref])

\* Two containers tie for the maximum score and the first in document order
\* has been returned.
C17_Witness ==
  /\ PrimaryDone /\ HeuristicRan /\ tried[4].found
  /\ \E j \in Containers(doc) :
       /\ j > contentElement.ref
       /\ calculateContentScore(doc, j) = calculateContentScore(doc, contentElement.ref)

\* The paragraphs strategy has run in this call and has not thrown.
ParagraphsRan == listener = "primary" /\ Len(tried) = 5 /\ ~tried[5].threw

\* The paragraphs with more than 50 characters of trimmed text whose parent
\* the exclusion rule lets pass, in document order.
KeptParagraphs(ns) ==
  SelectSeq(ParagraphsOf(ns),
            LAMBDA j : /\ Length(Trim(textContent(ns, j))) > 50
                       /\ ~ExcludedByRule(parentElement(ns, j)))

\* The sum of the trimmed text lengths of the kept paragraphs.
KeptLength(ns) ==
  Length(Flatten([k \in 1..Len(KeptParagraphs(ns)) |->
                    Trim(textContent(ns, KeptParagraphs(ns)[k]))]))

\* The virtual container holds copies of exactly the kept paragraphs.
HoldsKeptParagraphs ==
  /\ contentElement.ref = 0
  /\ Len(contentElement.tree) = 1 + Len(KeptParagraphs(doc))
  /\ contentElement.tree[1].tag = "DIV"
  /\ \A k \in 1..Len(KeptParagraphs(doc)) :
       contentElement.tree[k + 1] = [doc[KeptParagraphs(doc)[k]] EXCEPT !.parent = 1]

NormalizedLength(t) ==
  IF WordRuns(t) = {} THEN 0
  ELSE Length(SelectSeq(t, LAMBDA r : ~IsWs(r))) + Cardinality(WordRuns(t)) - 1

\* C19: the whole-page fallback listener answers only when the ArticleExtractor
\* did not initialize (then the extractor's strategies never run); its answer
\* is success with extractionMethod fallback if and only if the
\* whitespace-normalized text of the whole page is longer than 100 characters;
\* and the text of its answer is never longer than 5000 characters.
C19_FallbackAnswer ==
  /\ (pc = "done" /\ result.extractionMethod = "fallback") => listener = "fallback"
  /\ listener = "fallback" => tried = <<>> /\ contentElement = Null
  /\ (listener = "fallback" /\ pc = "done")
       => /\ result.success <=> NormalizedLength(textContent(doc, 0)) > 100
          /\ result.success => result.extractionMethod = "fallback"
          /\ ~result.success => result.extractionMethod # "fallback"
          /\ Length(result.text) <= 5000
          /\ Length(result.text)
               = Min(5000, NormalizedLength(textContent(doc, 0)))

\* The fallback listener has answered with the first 5000 characters of a
\* longer page.
C19_Witness ==
  /\ listener = "fallback" /\ pc = "done"
  /\ result.success
  /\ result.extractionMethod = "fallback"
  /\ NormalizedLength(textContent(doc, 0)) > 5000
  /\ Length(result.text) = 5000

\* The two elements scored differ only in that the second has no layout box.
SameButBox ==
  /\ probe.kind = "score" /\ outcome # <<>>
  /\ probe.a[1].geo.ok
  /\ probe.b = [k \in 1..Len(probe.a) |-> [probe.a[k] EXCEPT !.geo = NoBox]]

\* Twice the distance between the horizontal center of a box and the center
\* of the viewport.
TwiceCenterDistance(geo) == Abs(2 * geo.left + geo.width - innerWidth)

\* C20 as stated: the +5 centering bonus is added exactly when the distance
\* between the node's horizontal center and the viewport's center is less than
\* 0.15 times the viewport width (30% of its half-width).
C20_BonusWithin15Percent ==
  SameButBox =>
    outcome[1] - outcome[2] =
      (IF 100 * TwiceCenterDistance(probe.a[1].geo) < 2 * 15 * innerWidth
       THEN 500 ELSE 0)

\* C20 amended: the +5 centering bonus is added exactly when the distance
\* between the node's horizontal center and the viewport's center is less than
\* 0.3 times the viewport width, and nothing is added for a node at that
\* distance or farther.
C20_BonusWithin30Percent ==
  SameButBox =>
    outcome[1] - outcome[2] =
      (IF 100 * TwiceCenterDistance(probe.a[1].geo) < 2 * 30 * innerWidth
       THEN 500 ELSE 0)

\* A node 200 from the center of a viewport 1000 wide has the bonus.
C20_Witness ==
  /\ SameButBox
  /\ probe.a[1].geo = Box(0, 600)
  /\ outcome[1] - outcome[2] = 500

\* No node of the document has a layout box that can be queried.
NoGeometry(ns) == ns # <<>> /\ \A k \in 1..Len(ns) : ~ns[k].geo.ok

\* The score terms other than the centering term, in hundredths.
OtherTerms(ns, i) ==
  200 * Cardinality({j \in WithTag(ns, "P") : IsInside(ns, j, i)})
    + Min(Length(Trim(textContent(ns, i))), 2000)
    + (IF ContentWord(ns[i].cls) THEN 1000 ELSE 0)
    + (IF ContentWord(ns[i].id) THEN 1000 ELSE 0)
    - (IF Hinted(ns[i].cls) THEN 2000 ELSE 0)

\* C21: when the layout box of a node cannot be queried, the node's score is
\* the sum of the other terms; the heuristic strategy goes through all its
\* candidates and returns the one whose other terms are highest (if above 10);
\* and no extraction fails because of it: a strategy throws only in the
\* paragraphs strategy, on a page where shouldExcludeElement throws.
C21_GeometryFaultIgnored ==
  /\ (HeuristicRan /\ NoGeometry(doc))
       => LET cands == Containers(doc)
              top == {i \in cands : \A j \in cands : OtherTerms(doc, j) <= OtherTerms(doc, i)}
          IN  /\ ~tried[4].threw
              /\ IF cands # {} /\ OtherTerms(doc, Lowest(top)) > 1000
                 THEN tried[4].found /\ contentElement = Live(Lowest(top))
                 ELSE ~tried[4].found
  /\ \A k \in 1..Len(tried) :
       tried[k].threw => tried[k].strategy = "paragraphs" /\ ParagraphsFault(doc)

\* On a page without layout boxes the heuristic strategy has scored two
\* containers and taken the first, and the extraction has succeeded.
C21_Witness ==
  /\ PrimaryDone /\ NoGeometry(doc)
  /\ Cardinality(Containers(doc)) = 2
  /\ tried[Len(tried)] = Ran("heuristic", TRUE)
  /\ OtherTerms(doc, contentElement.ref) > 1000
  /\ result.success
  /\ result.extractionMethod = "heuristic"

\* The descendants of node i that an exclusion selector matches.
ExcludedInside(ns, i) ==
  {j \in 1..Len(ns) :
     /\ IsInside(ns, j, i)
     /\ \E sel \in Range(excludeSelectors) : Matches(ns[j], sel)}

\* C22: extractTextFromElement removes the excluded nodes from a copy only:
\* the step that extracts the text of the candidate leaves the live document
\* as it was, every descendant of the candidate included.
C22_CandidateKeepsDescendants ==
  [][pc = "extract" => doc' = doc]_vars

\* The text has been extracted from a live candidate that still holds a
\* descendant matching an exclusion selector, whose words are not in the text.
C22_Witness ==
  /\ PrimaryDone /\ result.success
  /\ contentElement.ref > 0
  /\ ExcludedInside(doc, contentElement.ref) # {}
  /\ Tokens(result.text) < Tokens(textContent(doc, contentElement.ref))

RECURSIVE JoinAll(_)
\* The texts joined into one.
JoinAll(pieces) ==
  IF pieces = <<>> THEN <<>> ELSE Cat(pieces[1], JoinAll(Tail(pieces)))

\* The nodes below the root of a tree that are marked, and all nodes below
\* them.
Under(tree, marked) ==
  {j \in 2..Len(tree) : j \in marked \/ \E m \in marked : IsInside(tree, j, m)}

\* The nodes below the root that a selector of the exclude list matches.
MatchedByList(tree) ==
  {j \in 2..Len(tree) : \E sel \in Range(excludeSelectors) : Matches(tree[j], sel)}

\* The nodes below the root that the exclusion predicate marks.
MarkedByFilter(tree) ==
  {j \in 2..Len(tree) : ExcludedByRule(tree[j])}

\* The text of node j of a tree without the nodes in gone.
TextWithout(tree, j, gone) ==
  JoinAll([k \in 1..Len(tree) |->
             IF k \notin gone /\ (k = j \/ IsInside(tree, k, j))
             THEN tree[k].text ELSE <<>>])

\* The text gathered from a tree once the nodes in gone are taken out: the
\* trimmed texts of the paragraphs and headings left, each followed by a double
\* line break, or all the text left when that is empty; then cleaned.
TextLeft(tree, gone) ==
  LET heads == SelectSeq([j \in 1..Len(tree) |-> j],
                 LAMBDA j : /\ j >= 2 /\ j \notin gone
                            /\ tree[j].tag \in {"P", "H1", "H2", "H3", "H4", "H5", "H6"})
      pieces == [k \in 1..Len(heads) |->
                   LET pText == Trim(TextWithout(tree, heads[k], gone))
                   IN  IF pText = <<>> THEN <<>> ELSE Cat(pText, N(2))]
      text == JoinAll(pieces)
  IN  cleanText(IF Trim(text) = <<>> THEN TextWithout(tree, 1, gone) ELSE text)

\* The primary listener has answered from a candidate.
FromCandidate == PrimaryDone /\ contentElement # Null

\* C23 as stated: the descendants that the exclusion predicate marks and the
\* descendants that the exclude list matches are taken out of the copy, with
\* all below them, before the text is gathered.
C23_FilterAndListRemoved ==
  FromCandidate =>
    LET tree == TreeOf(doc, contentElement)
    IN  result.text
          = TextLeft(tree, Under(tree, MatchedByList(tree) \cup MarkedByFilter(tree)))

\* C23 amended: the descendants that a selector of the exclude list matches
\* are taken out of the copy, with all below them, before the text is
\* gathered; a descendant that only the exclusion predicate marks stays.
C23_ListRemoved ==
  FromCandidate =>
    LET tree == TreeOf(doc, contentElement)
    IN  result.text = TextLeft(tree, Under(tree, MatchedByList(tree)))

\* The candidate held a block that the exclude list matches, and the text
\* sent is that of the rest.
C23_Witness ==
  /\ FromCandidate /\ result.success
  /\ LET tree == TreeOf(doc, contentElement)
     IN  /\ Cardinality(Under(tree, MatchedByList(tree))) >= 3
         /\ Tokens(result.text) > 0
         /\ Tokens(result.text) < Tokens(textContent(tree, 1))

\* The paragraphs and headings of a tree that are left once the exclude list
\* has been applied, and have text.
CollectedHeads(tree) ==
  {j \in 2..Len(tree) :
     /\ j \notin Under(tree, MatchedByList(tree))
     /\ tree[j].tag \in {"P", "H1", "H2", "H3", "H4", "H5", "H6"}
     /\ Trim(TextWithout(tree, j, Under(tree, MatchedByList(tree)))) # <<>>}

\* The runs of line breaks of a text.
BreakRuns(t) == {i \in 1..Len(t) : t[i].k = "n"}

\* C24 as stated: in the text of a result taken from a candidate with two or
\* more non-empty paragraphs or headings, consecutive paragraphs are separated
\* by a double line break (there is one between each two), and the text never
\* holds a run of 3 or more line breaks.
C24_ParagraphBreaksKept ==
  (FromCandidate /\ result.text # <<>>
     /\ Cardinality(CollectedHeads(TreeOf(doc, contentElement))) >= 2)
    => /\ Cardinality({i \in BreakRuns(result.text) : result.text[i].n = 2})
            >= Cardinality(CollectedHeads(TreeOf(doc, contentElement))) - 1
       /\ \A i \in BreakRuns(result.text) : result.text[i].n < 3

\* A result taken from an <article> with a heading and two paragraphs, in
\* whose text no line break is left.
C24_Witness ==
  /\ FromCandidate /\ result.success
  /\ result.extractionMethod = "semantic-article"
  /\ Cardinality(CollectedHeads(TreeOf(doc, contentElement))) = 3
  /\ Tokens(result.text) > 3
  /\ BreakRuns(result.text) = {}

\* C25 as stated: in every successful result sent for an extractText request,
\* by the primary path or by the whole-page fallback, wordCount is the number
\* of whitespace-delimited non-empty tokens of the text of that result.
C25_WordCountOfText ==
  (pc = "done" /\ result.success) => result.wordCount = Tokens(result.text)

\* The fallback listener has sent the first 5000 characters of a page, which
\* hold 2 words, with the word count 3 of the whole page.
C25_Witness ==
  /\ listener = "fallback" /\ pc = "done"
  /\ result.success
  /\ Length(result.text) = 5000
  /\ Tokens(result.text) = 2
  /\ result.wordCount = 3

\* The handler of the primary listener is at work on a request.
Handling == listener = "primary" /\ pc \notin {"idle", "done"}

\* C26, the count: every extractText request received by the primary listener
\* has been answered once when its handling is over, and not at all before;
\* the strategies run on a complete document only; and the answer of a
\* handling that threw is a failure with empty text and wordCount 0.
C26_AnsweredOnce ==
  listener = "primary" =>
    /\ sent = (IF Handling THEN runs - 1 ELSE runs)
    /\ pc \notin {"idle", "waiting"} => readyState = "complete"
    /\ (pc = "done" /\ tried # <<>> /\ tried[Len(tried)].threw)
         => ~result.success /\ result.text = <<>> /\ result.wordCount = 0

\* C26, the order: sendResponse is called only when the document is complete,
\* once at a time, and extractArticleText starts only then.
C26_AfterComplete ==
  [][listener = "primary"
       => /\ sent' # sent => readyState = "complete" /\ sent' = sent + 1 /\ pc' = "done"
          /\ (pc = "waiting" /\ pc' # "waiting") => readyState = "complete"]_vars

\* C26, the progress: a request that is being handled when the document is
\* complete is answered.
C26_EventuallyAnswered ==
  (Handling /\ readyState = "complete") ~> (pc = "done" /\ sent = runs)

\* C26: every extractText request received by the primary listener is answered
\* by exactly one call of sendResponse, made after document.readyState is
\* 'complete', and made eventually once the document is complete.
C26_AlwaysOneResponse ==
  []C26_AnsweredOnce /\ C26_AfterComplete /\ C26_EventuallyAnswered

\* The first request has been answered, once and with success, on a document
\* that is complete.
C26_Witness ==
  /\ PrimaryDone
  /\ runs = 1 /\ sent = 1
  /\ readyState = "complete"
  /\ result.success

TimeoutMessage ==
  "Content script communication timeout. Please refresh the page and try again."

\* C27, the states: no extractAndAnalyze call is rejected; a call has called
\* analyzeText only with a successful extraction result in hand; a call that
\* returned without such a result returned success = false with overallScore
\* 'unknown' and has started no analysis; and analyzeText has been called by
\* nothing else.
C27_OnlyAfterExtraction ==
  /\ \A j \in 1..Len(jobs) :
       /\ jobs[j].verdict.settled # "rejected"
       /\ jobs[j].stage = "returned" <=> jobs[j].verdict.settled = "fulfilled"
       /\ jobs[j].call # 0 <=> (jobs[j].extraction.kind = "result" /\ jobs[j].extraction.success)
       /\ jobs[j].stage = "analyzing" => jobs[j].call # 0
       /\ (jobs[j].stage = "returned" /\ jobs[j].call = 0)
            => /\ ~jobs[j].verdict.success
               /\ jobs[j].verdict.overallScore = "unknown"
               /\ jobs[j].verdict.error # ""
       /\ (jobs[j].stage = "returned" /\ jobs[j].call # 0) => jobs[j].verdict.error = ""
  /\ call.n = Cardinality({j \in 1..Len(jobs) : jobs[j].call # 0})

\* C27, the steps: analyzeText is called, and a backend request made, only in
\* the step in which a call that waits for the extraction receives a
\* successful result; and a call that has returned stays as it is, whatever
\* arrives later.
C27_NothingAfterReturn ==
  [][/\ \A j \in 1..Len(jobs) : jobs[j].stage = "returned" => jobs'[j] = jobs[j]
     /\ (call' # call \/ requests' # requests)
          => \E j \in channels :
               /\ jobs[j].stage = "extracting"
               /\ jobs'[j].extraction.success
               /\ jobs'[j].call = call'.n
               /\ call'.text = jobs'[j].extraction.text]_vars

\* C27: extractAndAnalyze never rejects and performs its steps in order.
C27_StepsInOrder == []C27_OnlyAfterExtraction /\ C27_NothingAfterReturn

\* A call has returned the timeout failure, the response to its extractText
\* message has arrived after that, and no analysis has been started.
C27_Witness ==
  /\ Len(jobs) = 1
  /\ jobs[1].stage = "returned"
  /\ jobs[1].verdict.error = TimeoutMessage
  /\ jobs[1].verdict.overallScore = "unknown"
  /\ channels = {}
  /\ call.n = 0 /\ requests = 0


\* ------------------------------------------------------ cache claims

\* The timestamps of the entries of a cache.
Timestamps(entries) == {entries[k].timestamp : k \in 1..Len(entries)}

\* C28: the entry that saving deletes when the cache goes above 100 entries
\* is the oldest one: no entry left in the cache has a smaller timestamp, and
\* the entry saved or refreshed last is not the one deleted.
C28_OldestEvicted ==
  evicted # NoEntry =>
      \A t \in Timestamps(cache) : evicted.timestamp <= t

\* An expired entry was refreshed in place at time 3 and deleted by the next
\* save, while 99 entries of time 0 stay.
C28_Witness ==
  /\ evicted # NoEntry
  /\ evicted.timestamp = cacheExpiry
  /\ evicted.result.of = "Aa"
  /\ Len(cache) = cacheLimit
  /\ 0 \in Timestamps(cache)

\* C29: a result that analyzeText serves from the cache was made for exactly
\* the text asked about.
C29_CachedForSameText ==
  (answer # NoAnswer /\ answer.cached) => answer.result.of = answer.text

\* "BB" is answered with the result cached for "Aa".
C29_Witness ==
  /\ answer # NoAnswer
  /\ answer.cached
  /\ answer.text = "BB"
  /\ answer.result.of = "Aa"

\* C30: the cache never holds more than 100 entries, and every entry is a
\* result of the backend with success = true, never the fallback result.
C30_BoundedSuccessOnly ==
  /\ Len(cache) <= cacheLimit
  /\ \A k \in 1..Len(cache) :
       /\ cache[k].result.success
       /\ cache[k].result.apiUsed # "error"
       /\ cache[k].result.overallScore # "unknown"

\* A save into a full cache has deleted an entry, and an analysis that failed
\* has been answered with the fallback result.
C30_Witness ==
  /\ Len(cache) = cacheLimit
  /\ evicted # NoEntry
  /\ answer # NoAnswer
  /\ answer.result.apiUsed = "error"

=============================================================================
